---- MODULE Spec2Model ----
(***************************************************************************)
(* Model of synccli's remote synchronisation core:                         *)
(*   - remote/ssh_client.go : SSHClient (Connect, host-key callback,       *)
(*                            authentication methods, Close)               *)
(*   - remote sync engine   : RemoteSyncEngine (SyncDirectory,             *)
(*                            calculateSyncPlan, executeSyncPlan)          *)
(*                                                                         *)
(* The specifications share the variables:                                 *)
(*   SpecConn  : the SSHClient connection life cycle, any configuration    *)
(*   SpecCalls : Connect, Close and the calls that need a connection       *)
(*   SpecPlan  : calculateSyncPlan as a pure function of its inputs        *)
(*   SpecScan  : SyncDirectory from its scans to its plan                  *)
(*   SpecStore : the ConfigManager and its document                        *)
(*   Spec      : one run of the remote sync command (the engine is built,  *)
(*               connected, SyncDirectory runs the plan, the engine is     *)
(*               disconnected) or of the remote test command               *)
(***************************************************************************)
EXTENDS Integers, Sequences, FiniteSets, TLC

(***************************************************************************)
(* Bounds                                                                  *)
(***************************************************************************)
\* number of distinct relative paths that may occur in an inventory
NumPaths == 2
\* number of Connect calls one client accepts in SpecConn
MaxConnects == 2

Paths == 1..NumPaths
\* The planner compares two sizes for equality only and two modification
\* times for order only, one path at a time: two sizes and two times give
\* every outcome of both comparisons.
Sizes == {1, 2}
Times == {1, 2}

(***************************************************************************)
(* Program constants                                                       *)
(***************************************************************************)
SyncToRemote == 0
SyncFromRemote == 1
SyncBoth == 2
Directions == {SyncToRemote, SyncFromRemote, SyncBoth}
DefaultPort == 22

VARIABLES
    \* ---- SSHClient (ssh_client.go) ----
    config,        \* SSHConfig the client was built with
    connected,     \* SSHClient.connected
    sshClient,     \* SSHClient.sshClient : 0 (nil) or the id of a connection
    sftpClient,    \* SSHClient.sftpClient: 0 (nil) or the id of its connection
    openConns,     \* ids of SSH connections currently open on the network
    nextConn,      \* id the next dialled connection gets
    knownHosts,    \* known-hosts file: [exists, lines]
    env,           \* environment of the client: key file, agent, library
    connectErr,    \* what the last Connect returned ("nil" or the failing step)
    acceptedKey,   \* host key the last handshake accepted ("none" if none)
    presentedKey,  \* host key the server presented in the last handshake
    hostStatus,    \* what the store said about that key before the callback
    nConnects,     \* number of Connect calls so far
    lastOp,        \* the last call made on the SSHClient and what it did
    \* ---- RemoteSyncEngine ----
    rseClient,     \* TRUE when rse.sshClient is not nil
    options,       \* SyncOptions plus RemoteConfig.Incremental
    localFiles,    \* local inventory  : relPath -> [Size, ModTime]
    remoteFiles,   \* remote inventory : relPath -> [Size, ModTime]
    plan,          \* SyncPlan: [Upload, Download, Delete] sequences of items
    result,        \* SyncResult
    pc,            \* position of the engine
    idx,           \* index of the next item in the current phase
    calls,         \* log of the transport calls SyncDirectory has made
    retval,        \* what SyncDirectory / executeSyncPlan returned
    cmd,           \* the command that runs: "sync" or "test"
    cmdErr,        \* what the command's RunE returned ("none" while running)
    \* ---- ConfigManager (config.go) ----
    configs,       \* ConfigManager.configs: name -> RemoteConfig
    configFile,    \* the document remote_configs.json: [exists, valid, entries]
    cmOp,          \* the last call made on the store and the error it returned
    \* ---- local sync command (runSync) ----
    syncOptions,   \* the flags: [SourcePath, DestPath, RuleFile]
    scanResult,    \* what scanDirectories returned: [SourceFiles, DestFiles]
    diffFiles,     \* what calculateDifferences returned
    copied,        \* log of the copyFile calls of transferFiles
    runPc,         \* position of runSync: "start", "transfer", "exit"
    runErr,        \* what runSync returned ("none" while running)
    \* ---- inputs of the scans of SyncDirectory ----
    excludeList,   \* RemoteConfig.ExcludeList
    pyFiles,       \* records the local scanner returns
    findOutput,    \* lines the remote listing command prints
    now,           \* time.Now() during the local scan
    \* ---- the remote side and the last FIleExists call ----
    remoteDirExists, \* the target directory exists on the remote host
    lastStat,      \* FIleExists: what Stat answered and what was returned
    \* ---- ScanDirectoriesWithTimeout / FilterFilesWithTimeout ----
    waitOp,        \* the call the worker goroutine makes
    worker,        \* position of the worker goroutine
    caller,        \* position of the calling goroutine
    shared,        \* the captured variables result and err
    done,          \* the channel done is closed
    timer,         \* the timeout: "running", "fired" or "firedAfter"
    returned       \* what the caller returned

connVars == <<config, connected, sshClient, sftpClient, openConns, nextConn,
              knownHosts, env, connectErr, acceptedKey, presentedKey, hostStatus,
              nConnects, lastOp>>
syncVars == <<rseClient, options, localFiles, remoteFiles, plan, result, pc, idx,
              calls, retval, cmd, cmdErr>>
storeVars == <<configs, configFile, cmOp>>
localVars == <<syncOptions, scanResult, diffFiles, copied, runPc, runErr>>
scanVars == <<excludeList, pyFiles, findOutput, now>>
waitVars == <<waitOp, worker, caller, shared, done, timer, returned>>
vars == <<config, connected, sshClient, sftpClient, openConns, nextConn,
          knownHosts, env, connectErr, acceptedKey, presentedKey, hostStatus,
          nConnects, lastOp, rseClient, options, localFiles, remoteFiles, plan,
          result, pc, idx, calls, retval, cmd, cmdErr, configs, configFile,
          cmOp, syncOptions, scanResult, diffFiles, copied, runPc, runErr,
          excludeList, pyFiles, findOutput, now, remoteDirExists, lastStat,
          waitOp, worker, caller, shared, done, timer, returned>>

(***************************************************************************)
(* SSHClient                                                               *)
(***************************************************************************)
\* Host strings: a bare name, and a name that already ends with the colon.
HostNames == {<<"h">>, <<"h", ":">>}
Ports == {0, DefaultPort}
Keys == {"k1", "k2"}
KeyType == "ssh-ed25519"
\* text fmt prints for a *string under %s (an address, not the key type)
PtrText == "0xc000"
\* error texts the known-hosts library may use for a host with no entry
UnknownTexts == {"knownhosts: key is unknown", "no hostkey found"}
MismatchText == "knownhosts: key mismatch"

\* NewSSHClient: a zero port becomes 22, a zero timeout 30
NewSSHClient(c) ==
    [c EXCEPT !.Port = IF c.Port = 0 THEN DefaultPort ELSE c.Port]

\* %d of the port
PortText(p) == IF p = DefaultPort THEN "22" ELSE "0"

\* Connect, line 76: addr := fmt.Sprintf("%s%d", Host, Port)
DialAddr(c) == c.Host \o <<PortText(c.Port)>>

\* net.SplitHostPort as used by ssh.Dial: the address must read host:port
AddrHasPort(a) == Len(a) >= 3 /\ a[Len(a) - 1] = ":"

\* a well-formed known-hosts line: host, key type, key blob
GoodLine(h, k) == <<h, KeyType, k>>

\* addHostKey, line 168: Sprintf("%s %s %s", hostname, &keyType, "type blob")
HostKeyEntry(hostname, k) == <<hostname, PtrText, KeyType, k>>

\* the known-hosts library reads the third word of a line as the key blob
LineKey(l) == l[3]
LineHost(l) == l[1]
LineValid(l) == LineKey(l) \in Keys

\* knownhosts.New: fails when a line of the file does not parse
KnownHostsLoads(lines) == \A i \in 1..Len(lines) : LineValid(lines[i])

\* the callback built by knownhosts.New: "ok", "unknown" or "mismatch"
KnownHostsCheck(lines, hostname, k) ==
    LET mine == {i \in 1..Len(lines) : LineHost(lines[i]) = hostname}
    IN  IF mine = {} THEN "unknown"
        ELSE IF \E i \in mine : LineKey(lines[i]) = k THEN "ok"
        ELSE "mismatch"

\* err.Error() of the library callback for each verdict ("" stands for nil)
CallbackErrText(status, unkText) ==
    IF status = "ok" THEN ""
    ELSE IF status = "unknown" THEN unkText
    ELSE MismatchText

\* strings.Contains(err.Error(), "no hostkey found")
ContainsNoHostkeyFound(text) == text = "no hostkey found"

\* mutation: the entry is written for every error of the library callback
wrapHostKeyCallback_AppendsOnAnyError(status, unkText, fsOK) ==
    LET text == CallbackErrText(status, unkText)
    IN  IF text # ""
        THEN IF ~fsOK
             THEN [accept |-> FALSE, append |-> FALSE, addErr |-> TRUE]
             ELSE [accept |-> FALSE, append |-> TRUE, addErr |-> FALSE]
        ELSE [accept |-> TRUE, append |-> FALSE, addErr |-> FALSE]

\* wrapHostKeyCallback: whether the wrapped callback returns nil (accept),
\* whether addHostKey wrote its entry (append) or failed (addErr)
wrapHostKeyCallback(status, unkText, fsOK) ==
    LET text == CallbackErrText(status, unkText)
    IN  IF text # ""
        THEN IF ContainsNoHostkeyFound(text)
             THEN IF ~fsOK
                  THEN [accept |-> FALSE, append |-> FALSE, addErr |-> TRUE]
                  ELSE \* the entry is written, then err is returned
                       [accept |-> FALSE, append |-> TRUE, addErr |-> FALSE]
             ELSE \* any other error falls through to return nil
                  [accept |-> TRUE, append |-> FALSE, addErr |-> FALSE]
        ELSE [accept |-> TRUE, append |-> FALSE, addErr |-> FALSE]

\* loadPrivateKey: TRUE when it returns a signer
loadPrivateKey(c, e) ==
    IF e.KeyState = "unreadable" THEN FALSE
    ELSE IF e.KeyState = "plain" THEN TRUE
    ELSE c.Password # ""      \* encrypted with the password as passphrase

\* addAuthMethods: [err, methods]
addAuthMethods(c, e) ==
    LET pw == IF c.Password # "" THEN {"password"} ELSE {}
        ag == IF e.Agent THEN {"agent"} ELSE {}
    IN  IF c.KeyFile # "" /\ ~loadPrivateKey(c, e)
        THEN [err |-> TRUE, methods |-> {}]
        ELSE LET ky == IF c.KeyFile # "" THEN {"publickey"} ELSE {}
                 all == pw \cup ky \cup ag
             IN  [err |-> all = {}, methods |-> all]

Methods == {"password", "publickey", "agent"}
ServerAccepts == {{}, {"password"}, {"publickey"}, {"agent"}}

SSHConfigs ==
    [Host : HostNames, Port : Ports, Password : {"", "pw"},
     KeyFile : {"", "id_key"}, StrictHostCheck : BOOLEAN]
Envs ==
    [KeyState : {"plain", "encrypted", "unreadable"}, Agent : BOOLEAN,
     UnknownText : UnknownTexts]

\* known-hosts files a client may start with
InitialStores(c) ==
    { [exists |-> FALSE, lines |-> <<>>],
      [exists |-> TRUE, lines |-> <<>>],
      [exists |-> TRUE, lines |-> <<GoodLine(DialAddr(c), "k1")>>],
      [exists |-> TRUE, lines |-> <<GoodLine(<<"other">>, "k1")>>] }

\* createHostKeyCallback: the known-hosts file after the call and whether a
\* callback was built.  With strict checking off the file is not touched.
createHostKeyCallback(c, kh, fsOK) ==
    IF ~c.StrictHostCheck THEN [err |-> FALSE, file |-> kh]
    ELSE IF ~kh.exists /\ ~fsOK THEN [err |-> TRUE, file |-> kh]
    ELSE LET f == IF kh.exists THEN kh
                  ELSE [exists |-> TRUE, lines |-> <<>>]
         IN  [err |-> ~KnownHostsLoads(f.lines), file |-> f]

\* the outcome of Connect as a record of the new values
ConnectOutcome(c, e, kh, netOK, key, accepts, sftpOK, fsOK) ==
    LET cb   == createHostKeyCallback(c, kh, fsOK)
        auth == addAuthMethods(c, e)
        addr == DialAddr(c)
        none == [err |-> "nil", file |-> cb.file, dialled |-> FALSE,
                 sftp |-> FALSE, presented |-> "none", status |-> "none",
                 accepted |-> "none"]
    IN  IF cb.err THEN [none EXCEPT !.err = "hostkeycallback"]
        ELSE IF auth.err THEN [none EXCEPT !.err = "auth"]
        ELSE IF ~AddrHasPort(addr) THEN [none EXCEPT !.err = "dial:addr"]
        ELSE IF ~netOK THEN [none EXCEPT !.err = "dial:net"]
        ELSE
          LET status == IF c.StrictHostCheck
                        THEN KnownHostsCheck(cb.file.lines, addr, key)
                        ELSE "none"
              w == IF c.StrictHostCheck
                   THEN wrapHostKeyCallback(status, e.UnknownText, fsOK)
                   ELSE [accept |-> TRUE, append |-> FALSE, addErr |-> FALSE]
              f == IF w.append
                   THEN [cb.file EXCEPT
                           !.lines = Append(@, HostKeyEntry(addr, key))]
                   ELSE cb.file
              seen == [none EXCEPT !.file = f, !.presented = key,
                                   !.status = status]
          IN  IF ~w.accept
              THEN [seen EXCEPT !.err = IF w.addErr THEN "dial:hostkey:add"
                                        ELSE "dial:hostkey"]
              ELSE IF auth.methods \cap accepts = {}
                   THEN [seen EXCEPT !.err = "dial:auth", !.accepted = key]
              ELSE IF ~sftpOK
                   THEN [seen EXCEPT !.err = "sftp", !.accepted = key,
                                     !.dialled = TRUE]
              ELSE [seen EXCEPT !.accepted = key, !.dialled = TRUE,
                                !.sftp = TRUE]

\* what a call on the client did: whether the client was connected when it
\* was made, whether it returned an error, whether it sent anything to the
\* server, whether it created or wrote a local file or directory
OpRecord(op, conn, err, remote, local) ==
    [op |-> op, conn |-> conn, err |-> err, remote |-> remote,
     local |-> local]
NoOp == OpRecord("none", FALSE, FALSE, FALSE, FALSE)

\* Connect as a call: the dial is reached once the callback, the methods and
\* the address are there; the known-hosts file may be created or extended
ConnectOp(kh, o) ==
    OpRecord("Connect", FALSE, o.err # "nil",
             o.err \notin {"hostkeycallback", "auth", "dial:addr"},
             o.file # kh)

\* mutation: the connection stays open when the SFTP client cannot be made
OpenAfterConnect_LeakOnSftpFailure(open, id, o) ==
    IF o.dialled THEN open \cup {id} ELSE open

\* Connect, lines 85-92: the connections open when Connect returns; an SFTP
\* failure closes the connection that was just dialled
OpenAfterConnect(open, id, o) ==
    IF o.sftp THEN open \cup {id} ELSE open

\* SSHClient.Connect
Connect(netOK, key, accepts, sftpOK, fsOK) ==
    /\ nConnects < MaxConnects
    /\ nConnects' = nConnects + 1
    /\ IF connected
       THEN /\ connectErr' = "nil"
            /\ presentedKey' = "none"
            /\ hostStatus' = "none"
            /\ acceptedKey' = "none"
            /\ lastOp' = OpRecord("Connect", TRUE, FALSE, FALSE, FALSE)
            /\ UNCHANGED <<connected, sshClient, sftpClient, openConns,
                           nextConn, knownHosts>>
       ELSE \E o \in {ConnectOutcome(config, env, knownHosts, netOK, key,
                                      accepts, sftpOK, fsOK)} :
                /\ connectErr' = o.err
                /\ lastOp' = ConnectOp(knownHosts, o)
                /\ presentedKey' = o.presented
                /\ hostStatus' = o.status
                /\ acceptedKey' = o.accepted
                /\ knownHosts' = o.file
                /\ sshClient' = IF o.dialled THEN nextConn ELSE sshClient
                /\ sftpClient' = IF o.sftp THEN nextConn ELSE sftpClient
                /\ nextConn' = IF o.dialled THEN nextConn + 1 ELSE nextConn
                /\ openConns' = OpenAfterConnect(openConns, nextConn, o)
                /\ connected' = o.sftp
    /\ UNCHANGED <<config, env>>

\* mutation: Close without the connected test and without clearing the flag
CloseOutcome_NoGuard(conn, sftpOK, sshOK) ==
    [err |-> ~sftpOK \/ ~sshOK, connected |-> conn, released |-> TRUE]

\* SSHClient.Close: the error it returns, the connected flag it leaves and
\* whether it closed the SFTP client and the SSH connection.
\* sftpOK, sshOK: outcomes of sftpClient.Close() and sshClient.Close()
CloseOutcome(conn, sftpOK, sshOK) ==
    IF ~conn
    THEN [err |-> FALSE, connected |-> FALSE, released |-> FALSE]
    ELSE [err |-> ~sftpOK \/ ~sshOK, connected |-> FALSE, released |-> TRUE]

\* SSHClient.Close
Close(sftpOK, sshOK) ==
    /\ LET o == CloseOutcome(connected, sftpOK, sshOK)
       IN  /\ openConns' = IF o.released THEN openConns \ {sshClient}
                           ELSE openConns
           /\ connected' = o.connected
           /\ lastOp' = OpRecord("Close", connected, o.err, o.released, FALSE)
    /\ UNCHANGED <<config, env, sshClient, sftpClient, nextConn, knownHosts,
                   connectErr, acceptedKey, presentedKey, hostStatus,
                   nConnects>>

\* the calls that need a connected client
ClientOps == {"ExecuteCommand", "UploadFile", "DownloadFile",
              "ListDirectory", "FIleExists", "GetFileInfo"}

\* what each call does after its connected test, step by step:
\* "remote" a request to the server, "open" a local file opened for reading,
\* "create" a local directory or file created, "copy" io.Copy between the two
OpSteps(op) ==
    IF op = "ExecuteCommand" THEN <<"remote", "remote">>
    ELSE IF op = "UploadFile" THEN <<"open", "remote", "remote", "copy">>
    ELSE IF op = "DownloadFile" THEN <<"remote", "create", "create", "copy">>
    ELSE <<"remote">>
\* the step of a call that fails (0: none does)
FailPoints(op) == 0..Len(OpSteps(op))

\* mutation: the calls without their connected test
ClientOp_NoGuard(op, conn, fail, notExist) ==
    LET steps == OpSteps(op)
        tried == IF fail = 0 THEN Len(steps) ELSE fail
        isErr == fail # 0 /\ (op = "FIleExists" => notExist)
    IN  OpRecord(op, conn, isErr,
                 \E i \in 1..tried : steps[i] \in {"remote", "copy"},
                 \E i \in 1..tried : steps[i] \in {"create", "copy"}
                                     /\ op = "DownloadFile")

\* ExecuteCommand, UploadFile, DownloadFile, ListDirectory, FIleExists and
\* GetFileInfo.  fail: the step that fails (0: none); notExist: the failed
\* Stat of FIleExists reports "does not exist" (any other Stat error is
\* answered with true and no error)
ClientOp(op, conn, fail, notExist) ==
    LET steps == OpSteps(op)
        tried == IF ~conn THEN 0
                 ELSE IF fail = 0 THEN Len(steps) ELSE fail
        isErr == ~conn \/ (fail # 0 /\ (op = "FIleExists" => notExist))
    IN  OpRecord(op, conn, isErr,
                 \E i \in 1..tried : steps[i] \in {"remote", "copy"},
                 \E i \in 1..tried : steps[i] \in {"create", "copy"}
                                     /\ op = "DownloadFile")

\* what sftpClient.Stat answered in a call of FIleExists
StatAnswer(fail, notExist) ==
    IF fail = 0 THEN "ok" ELSE IF notExist THEN "notexist" ELSE "error"

\* SSHClient.FIleExists: the pair it returns for each answer of Stat
FIleExists(conn, stat) ==
    IF ~conn THEN [stat |-> "none", exists |-> FALSE, err |-> TRUE]
    ELSE IF stat = "ok" THEN [stat |-> stat, exists |-> TRUE, err |-> FALSE]
    ELSE IF stat = "notexist"
    THEN \* os.IsNotExist(err): return false, err
         [stat |-> stat, exists |-> FALSE, err |-> TRUE]
    ELSE \* any other error falls through to return true, nil
         [stat |-> stat, exists |-> TRUE, err |-> FALSE]

\* one of the six calls made on the client
ClientCall(op, fail, notExist) ==
    /\ notExist => (op = "FIleExists" /\ fail # 0)
    /\ lastOp' = ClientOp(op, connected, fail, notExist)
    /\ UNCHANGED <<config, connected, sshClient, sftpClient, openConns,
                   nextConn, knownHosts, env, connectErr, acceptedKey,
                   presentedKey, hostStatus, nConnects>>

(***************************************************************************)
(* RemoteSyncEngine: inventories and the planner                           *)
(***************************************************************************)
FileInfo == [Size : Sizes, ModTime : Times]

\* an inventory maps the relative paths it holds to their FileInfo
Inventories == {f \in UNION {[S -> FileInfo] : S \in SUBSET Paths} : TRUE}
EmptyInventory == [p \in {} |-> [Size |-> 1, ModTime |-> 1]]

EmptyPlan == [Upload |-> <<>>, Download |-> <<>>, Delete |-> <<>>]

\* the keys of a map as a sequence, in the order the range loop visits them
\* (ascending here; Go leaves the order of a map range unspecified)
RECURSIVE RangeOrder(_)
RangeOrder(S) ==
    IF S = {} THEN <<>>
    ELSE LET m == CHOOSE x \in S : \A y \in S : x <= y
         IN  <<m>> \o RangeOrder(S \ {m})

\* a sequence back to front
Reverse(s) == [i \in 1..Len(s) |-> s[Len(s) + 1 - i]]

\* two of the orders a map range may take: ascending, or descending when rev
RangeOrderIn(S, rev) == IF rev THEN Reverse(RangeOrder(S)) ELSE RangeOrder(S)

\* mutation: "not before" in place of "after"
After_OrEqual(t, u) == t >= u

\* time.Time.After
After(t, u) == t > u

\* mutation: a file missing remotely is uploaded only under force
shouldUpload_MissingNeedsForce(lf, rf, opts, p) ==
    IF p \notin DOMAIN rf THEN opts.Force
    ELSE IF opts.Incremental
         THEN After(lf[p].ModTime, rf[p].ModTime) \/ lf[p].Size # rf[p].Size
         ELSE opts.Force

\* mutation: the incremental test compares sizes only
shouldUpload_SizeOnly(lf, rf, opts, p) ==
    IF p \notin DOMAIN rf THEN TRUE
    ELSE IF opts.Incremental
         THEN lf[p].Size # rf[p].Size
         ELSE opts.Force

\* calculateSyncPlan, lines 279-291: shouldUpload for one local path
shouldUpload(lf, rf, opts, p) ==
    IF p \notin DOMAIN rf THEN TRUE
    ELSE IF opts.Incremental
         THEN After(lf[p].ModTime, rf[p].ModTime) \/ lf[p].Size # rf[p].Size
         ELSE opts.Force

\* mutation: without incremental mode a path held by both sides is downloaded
\* whatever the force flag
shouldDownload_ForceIgnored(lf, rf, opts, p) ==
    IF p \notin DOMAIN lf THEN TRUE
    ELSE IF opts.Incremental
         THEN After(rf[p].ModTime, lf[p].ModTime) \/ rf[p].Size # lf[p].Size
         ELSE TRUE

\* mutation: the incremental test for a download compares times only
shouldDownload_TimeOnly(lf, rf, opts, p) ==
    IF p \notin DOMAIN lf THEN TRUE
    ELSE IF opts.Incremental
         THEN After(rf[p].ModTime, lf[p].ModTime)
         ELSE opts.Force

\* calculateSyncPlan, lines 310-322: shouldDownload for one remote path
shouldDownload(lf, rf, opts, p) ==
    IF p \notin DOMAIN lf THEN TRUE
    ELSE IF opts.Incremental
         THEN After(rf[p].ModTime, lf[p].ModTime) \/ rf[p].Size # lf[p].Size
         ELSE opts.Force

\* mutation: every remote path is queued for deletion
shouldDelete_EveryRemotePath(lf, rf, opts, p) == TRUE

\* calculateSyncPlan, lines 336-340: a remote path queued for deletion
shouldDelete(lf, rf, opts, p) == p \notin DOMAIN lf

\* does the direction include the to-remote side / the from-remote side
IncludesToRemote(d) == d = SyncToRemote \/ d = SyncBoth
\* mutation: the download loop runs for every direction
IncludesFromRemote_Always(d) == TRUE

IncludesFromRemote(d) == d = SyncFromRemote \/ d = SyncBoth

\* mutation: the direction test around the deletion loop dropped
DeletePhaseEnabled_AnyDirection(opts) == opts.DeleteExtra

\* the deletion loop runs only with DeleteExtra and a to-remote direction
DeletePhaseEnabled(opts) ==
    opts.DeleteExtra /\ IncludesToRemote(opts.Direction)

UploadItem(lf, p) ==
    [LocalPath |-> p, RemotePath |-> p, Size |-> lf[p].Size,
     Action |-> "upload"]
DownloadItem(rf, p) ==
    [LocalPath |-> p, RemotePath |-> p, Size |-> rf[p].Size,
     Action |-> "download"]
\* a delete item carries no local path (0 stands for the empty string)
DeleteItem(rf, p) ==
    [LocalPath |-> 0, RemotePath |-> p, Size |-> rf[p].Size,
     Action |-> "delete_remote"]

\* calculateSyncPlan when its range loops visit the maps in the order rev
\* selects
calculateSyncPlanIn(lf, rf, opts, rev) ==
    LET ups == IF IncludesToRemote(opts.Direction)
               THEN {p \in DOMAIN lf : shouldUpload(lf, rf, opts, p)}
               ELSE {}
        downs == IF IncludesFromRemote(opts.Direction)
                 THEN {p \in DOMAIN rf : shouldDownload(lf, rf, opts, p)}
                 ELSE {}
        dels == IF DeletePhaseEnabled(opts)
                THEN {p \in DOMAIN rf : shouldDelete(lf, rf, opts, p)}
                ELSE {}
        uo == RangeOrderIn(ups, rev)
        do == RangeOrderIn(downs, rev)
        xo == RangeOrderIn(dels, rev)
    IN  [Upload   |-> [i \in 1..Len(uo) |-> UploadItem(lf, uo[i])],
         Download |-> [i \in 1..Len(do) |-> DownloadItem(rf, do[i])],
         Delete   |-> [i \in 1..Len(xo) |-> DeleteItem(rf, xo[i])]]

\* calculateSyncPlan, the maps visited in ascending order
calculateSyncPlan(lf, rf, opts) == calculateSyncPlanIn(lf, rf, opts, FALSE)

\* the relative paths of a plan's collections
PathsOf(items) == {items[i].RemotePath : i \in 1..Len(items)}

(***************************************************************************)
(* RemoteSyncEngine: SyncDirectory and executeSyncPlan                     *)
(***************************************************************************)
EmptyResult ==
    [TotalFiles |-> 0, UploadedFiles |-> 0, DownloadFiles |-> 0,
     DeletedFiles |-> 0, SkippedFiles |-> 0, ErrorFiles |-> 0,
     TotalSize |-> 0, Errors |-> <<>>]

SyncOptions ==
    [Direction : Directions, DryRun : BOOLEAN, Force : BOOLEAN,
     DeleteExtra : BOOLEAN, Incremental : BOOLEAN]

PlanSize(p) == Len(p.Upload) + Len(p.Download) + Len(p.Delete)

\* the collection each loop of executeSyncPlan walks
PhaseItems(p, phase) ==
    IF phase = "upload" THEN p.Upload
    ELSE IF phase = "download" THEN p.Download
    ELSE p.Delete

\* mutation: the deletion loop placed before the download loop
NextPhase_DeleteFirst(phase) ==
    IF phase = "upload" THEN "delete"
    ELSE IF phase = "delete" THEN "download"
    ELSE "done"

\* the loops follow one another: uploads, downloads, deletions
NextPhase(phase) ==
    IF phase = "upload" THEN "download"
    ELSE IF phase = "download" THEN "delete"
    ELSE "done"

\* the first loop from phase on that has an item to walk
RECURSIVE Settle(_, _)
Settle(p, phase) ==
    IF phase = "done" THEN "done"
    ELSE IF Len(PhaseItems(p, phase)) > 0 THEN phase
    ELSE Settle(p, NextPhase(phase))

\* mutation: the loop gives up at the first failed item
AfterItem_AbortOnFailure(p, phase, i, ok) ==
    IF ~ok THEN [pc |-> "done", idx |-> 1]
    ELSE IF i < Len(PhaseItems(p, phase))
    THEN [pc |-> phase, idx |-> i + 1]
    ELSE [pc |-> Settle(p, NextPhase(phase)), idx |-> 1]

\* where executeSyncPlan stands after item i of phase, whose call returned ok
AfterItem(p, phase, i, ok) ==
    IF i < Len(PhaseItems(p, phase))
    THEN [pc |-> phase, idx |-> i + 1]
    ELSE [pc |-> Settle(p, NextPhase(phase)), idx |-> 1]

\* mutation: the DryRun test dropped
AfterPlan_IgnoreDryRun(opts, p) == Settle(p, "upload")

\* SyncDirectory, lines 119-126: dry run returns, otherwise the plan is run
AfterPlan(opts, p) ==
    IF opts.DryRun THEN "done" ELSE Settle(p, "upload")

\* the transport call each loop makes
TransportOp(phase) ==
    IF phase = "upload" THEN "UploadFile"
    ELSE IF phase = "download" THEN "DownloadFile"
    ELSE "rm"

\* mutation: a deletion adds the size of the deleted file to TotalSize
ItemOutcome_DeleteAddsSize(res, phase, item, ok) ==
    IF ~ok
    THEN [res EXCEPT !.Errors = Append(@, [op |-> TransportOp(phase),
                                           path |-> item.RemotePath]),
                     !.ErrorFiles = @ + 1]
    ELSE IF phase = "upload"
         THEN [res EXCEPT !.UploadedFiles = @ + 1, !.TotalSize = @ + item.Size]
    ELSE IF phase = "download"
         THEN [res EXCEPT !.DownloadFiles = @ + 1, !.TotalSize = @ + item.Size]
    ELSE [res EXCEPT !.DeletedFiles = @ + 1, !.TotalSize = @ + item.Size]

\* mutation: a failed deletion is appended to Errors but not counted
ItemOutcome_FailedDeleteUncounted(res, phase, item, ok) ==
    IF ~ok
    THEN [res EXCEPT !.Errors = Append(@, [op |-> TransportOp(phase),
                                           path |-> item.RemotePath]),
                     !.ErrorFiles = IF phase = "delete" THEN @ ELSE @ + 1]
    ELSE IF phase = "upload"
         THEN [res EXCEPT !.UploadedFiles = @ + 1, !.TotalSize = @ + item.Size]
    ELSE IF phase = "download"
         THEN [res EXCEPT !.DownloadFiles = @ + 1, !.TotalSize = @ + item.Size]
    ELSE [res EXCEPT !.DeletedFiles = @ + 1]

\* executeSyncPlan: the result after one item
ItemOutcome(res, phase, item, ok) ==
    IF ~ok
    THEN [res EXCEPT !.Errors = Append(@, [op |-> TransportOp(phase),
                                           path |-> item.RemotePath]),
                     !.ErrorFiles = @ + 1]
    ELSE IF phase = "upload"
         THEN [res EXCEPT !.UploadedFiles = @ + 1, !.TotalSize = @ + item.Size]
    ELSE IF phase = "download"
         THEN [res EXCEPT !.DownloadFiles = @ + 1, !.TotalSize = @ + item.Size]
    ELSE [res EXCEPT !.DeletedFiles = @ + 1]

Call(op, path, ok) == [op |-> op, path |-> path, ok |-> ok]

\* NewSSHClient(config.SSH) followed by Connect on the new client
NewClientConnect(netOK, key, accepts, sftpOK, fsOK) ==
    /\ nConnects' = nConnects + 1
    /\ config' = NewSSHClient(config)
    /\ \E o \in {ConnectOutcome(config', env, knownHosts, netOK, key,
                                 accepts, sftpOK, fsOK)} :
           /\ connectErr' = o.err
           /\ presentedKey' = o.presented
           /\ hostStatus' = o.status
           /\ acceptedKey' = o.accepted
           /\ knownHosts' = o.file
           /\ sshClient' = IF o.dialled THEN nextConn ELSE 0
           /\ sftpClient' = IF o.sftp THEN nextConn ELSE 0
           /\ nextConn' = IF o.dialled THEN nextConn + 1 ELSE nextConn
           /\ openConns' = OpenAfterConnect(openConns, nextConn, o)
           /\ connected' = o.sftp
           /\ lastOp' = ConnectOp(knownHosts, o)
    /\ UNCHANGED env

\* RemoteSyncEngine.Connect: a new SSHClient, then SSHClient.Connect
EngineConnect(netOK, key, accepts, sftpOK, fsOK) ==
    /\ rseClient' = TRUE
    /\ NewClientConnect(netOK, key, accepts, sftpOK, fsOK)
    /\ UNCHANGED <<options, localFiles, remoteFiles, plan, result,
                   idx, calls, retval, cmd, storeVars,
                   localVars, scanVars,
                   remoteDirExists, lastStat, waitVars>>

\* RemoteSyncEngine.Disconnect: Close on the client when there is one
Disconnect(sftpOK, sshOK) ==
    /\ IF rseClient
       THEN Close(sftpOK, sshOK)
       ELSE UNCHANGED connVars
    /\ UNCHANGED <<rseClient, options, localFiles, remoteFiles,
                   plan, result, idx, calls, retval, cmd, storeVars,
                   localVars, scanVars,
                   remoteDirExists, lastStat, waitVars>>

\* mutation: a failed listing command is returned as an error
scanRemoteFiles_FailsOnError(findOK, rf) ==
    [err |-> ~findOK, files |-> IF findOK THEN rf ELSE EmptyInventory]

\* scanRemoteFiles: the inventory parsed from the output of the listing
\* command, or the empty inventory when ExecuteCommand fails; the error is
\* nil on every path.  rf: what the listing shows when it succeeds
scanRemoteFiles(findOK, rf) ==
    [err |-> FALSE, files |-> IF findOK THEN rf ELSE EmptyInventory]

\* SyncDirectory returns before the plan exists
SyncReturnsEarly(err, log) ==
    /\ pc' = "done"
    /\ retval' = err
    /\ calls' = log
    /\ result' = EmptyResult
    /\ UNCHANGED <<plan, idx>>

\* ensureRemoteDirectory: "mkdir -p" on the remote host; whether the target
\* directory exists afterwards
ensureRemoteDirectory(exists, mkdirOK) == exists \/ mkdirOK

\* RemoteSyncEngine.SyncDirectory up to the first item of the plan.
\* mkdirOK, scanOK, findOK: outcomes of ensureRemoteDirectory, the local
\* scanner and the remote listing command; lf, rf: what the scans deliver.
SyncDirectory(mkdirOK, scanOK, findOK, lf, rf) ==
    /\ pc = "idle"
    /\ IF ~rseClient
       THEN \* IsConnected on a nil *SSHClient
            /\ pc' = "panic"
            /\ UNCHANGED <<retval, calls, result, plan, idx>>
       ELSE IF ~connected
       THEN SyncReturnsEarly("err:notconnected", calls)
       ELSE IF ~mkdirOK
       THEN SyncReturnsEarly("err:mkdir", Append(calls, Call("mkdir", 0, FALSE)))
       ELSE IF ~scanOK
       THEN SyncReturnsEarly("err:scanlocal",
                             calls \o <<Call("mkdir", 0, TRUE),
                                        Call("walk", 0, FALSE)>>)
       ELSE IF scanRemoteFiles(findOK, rf).err
       THEN SyncReturnsEarly("err:scanremote",
                             calls \o <<Call("mkdir", 0, TRUE),
                                        Call("walk", 0, TRUE),
                                        Call("find", 0, findOK)>>)
       ELSE /\ plan' = calculateSyncPlan(lf, scanRemoteFiles(findOK, rf).files,
                                         options)
            /\ result' = [EmptyResult EXCEPT !.TotalFiles = PlanSize(plan')]
            /\ calls' = calls \o <<Call("mkdir", 0, TRUE),
                                   Call("walk", 0, TRUE),
                                   Call("find", 0, findOK)>>
            /\ pc' = AfterPlan(options, plan')
            /\ idx' = 1
            /\ retval' = IF pc' = "done" THEN "nil" ELSE retval
    /\ remoteDirExists' = IF rseClient /\ connected
                          THEN ensureRemoteDirectory(remoteDirExists, mkdirOK)
                          ELSE remoteDirExists
    /\ UNCHANGED <<connVars, rseClient, options, localFiles, remoteFiles,
                   cmd, cmdErr, storeVars, localVars, scanVars, lastStat,
                   waitVars>>

\* one iteration of a loop of executeSyncPlan; ok: the transport call's outcome
ExecStep(phase, ok) ==
    /\ pc = phase
    /\ LET item == PhaseItems(plan, phase)[idx]
       IN  /\ calls' = Append(calls, Call(TransportOp(phase),
                                          item.RemotePath, ok))
           /\ result' = ItemOutcome(result, phase, item, ok)
    /\ pc' = AfterItem(plan, phase, idx, ok).pc
    /\ idx' = AfterItem(plan, phase, idx, ok).idx
    /\ retval' = IF pc' = "done" THEN "nil" ELSE retval
    /\ UNCHANGED <<connVars, rseClient, options, localFiles, remoteFiles,
                   plan, cmd, cmdErr, storeVars,
                   localVars, scanVars,
                   remoteDirExists, lastStat, waitVars>>

UploadStep == \E ok \in BOOLEAN : ExecStep("upload", ok)
DownloadStep == \E ok \in BOOLEAN : ExecStep("download", ok)
DeleteStep == \E ok \in BOOLEAN : ExecStep("delete", ok)

(***************************************************************************)
(* ConfigManager (config.go)                                               *)
(***************************************************************************)
Names == {"a", "b"}
\* json.MarshalIndent writes the keys of a map in sorted order
NameOrder == <<"a", "b">>
DefaultRemoteBase == "/tmp/synccli"

\* RemoteConfig.SSH: nil, or an SSHConfig of which Host and Username count
NilSSH == [IsNil |-> TRUE, Host |-> "", Username |-> ""]
SSHTargets ==
    {NilSSH} \cup [IsNil : {FALSE}, Host : {"", "h"}, Username : {"", "u"}]

\* the profiles a caller may pass to AddConfig / to UpdateConfig
RemoteConfigs ==
    [Name : Names \cup {""}, SSH : SSHTargets, RemoteBase : {"", "/srv"}]
UpdateArgs ==
    {[Name |-> "", SSH |-> [IsNil |-> FALSE, Host |-> "h", Username |-> "u"],
      RemoteBase |-> "/srv"],
     [Name |-> "b", SSH |-> NilSSH, RemoteBase |-> ""]}
NoArg == [Name |-> "", SSH |-> NilSSH, RemoteBase |-> ""]

EmptyConfigs == [n \in {} |-> NoArg]

\* the document: absent, or present and either a JSON object (its entries in
\* the order they are written) or text that does not parse
MissingFile == [exists |-> FALSE, valid |-> FALSE, entries |-> <<>>]
BrokenFile == [exists |-> TRUE, valid |-> FALSE, entries |-> <<>>]

StoreOp(op, name, arg, err) ==
    [op |-> op, name |-> name, arg |-> arg, err |-> err]
NoStoreOp == StoreOp("none", "", NoArg, "")

\* json.MarshalIndent(cm.configs): one entry per key, keys in sorted order
Marshal(m) ==
    LET Held(n) == n \in DOMAIN m
        ks == SelectSeq(NameOrder, Held)
    IN  [i \in 1..Len(ks) |-> [key |-> ks[i], value |-> m[ks[i]]]]

\* json.Unmarshal(data, &cm.configs): every key of the object is set in the
\* map (the last entry of a key wins), keys the object lacks are kept
Unmarshal(entries, into) ==
    LET keys == {entries[i].key : i \in 1..Len(entries)}
        Last(n) == CHOOSE i \in 1..Len(entries) :
                      /\ entries[i].key = n
                      /\ \A j \in (i + 1)..Len(entries) : entries[j].key # n
    IN  [n \in DOMAIN into \cup keys |->
            IF n \in keys THEN entries[Last(n)].value ELSE into[n]]

\* mutation: the document is extended, not rewritten
WriteFile_Append(file, data, w) ==
    IF w = "ok"
    THEN [exists |-> TRUE, valid |-> TRUE, entries |-> file.entries \o data]
    ELSE IF w = "openfail" THEN file
    ELSE BrokenFile

\* os.WriteFile(cm.configFile, data, 0600): the file is truncated and written.
\* w: "ok"; "openfail" (the file cannot be opened, it stays as it is);
\* "writefail" (the write fails after the truncation)
WriteFile(file, data, w) ==
    IF w = "ok" THEN [exists |-> TRUE, valid |-> TRUE, entries |-> data]
    ELSE IF w = "openfail" THEN file
    ELSE BrokenFile
WriteOutcomes == {"ok", "openfail", "writefail"}

\* SaveConfigs: the error it returns and the document it leaves
SaveConfigs(m, file, w) ==
    [err |-> IF w = "ok" THEN "" ELSE "write",
     file |-> WriteFile(file, Marshal(m), w)]

\* AddConfig, lines 79-90: the validation error ("" when the profile passes)
AddConfigError(c) ==
    IF c.Name = "" THEN "the name is null"
    ELSE IF c.SSH.IsNil THEN "ssh is null"
    ELSE IF c.SSH.Host = "" THEN "the host is null"
    ELSE IF c.SSH.Username = "" THEN "the name is null"
    ELSE ""

\* cm.configs[name] = c
Put(m, name, c) ==
    [n \in DOMAIN m \cup {name} |-> IF n = name THEN c ELSE m[n]]
\* delete(cm.configs, name)
Delete(m, name) == [n \in DOMAIN m \ {name} |-> m[n]]

\* LoadConfigs: ReadFile then Unmarshal into cm.configs.
\* err: "" (nil), "notexist", "read" or "parse"
LoadConfigs(into, file, readOK) ==
    IF ~file.exists THEN [err |-> "notexist", configs |-> into]
    ELSE IF ~readOK THEN [err |-> "read", configs |-> into]
    ELSE IF ~file.valid THEN [err |-> "parse", configs |-> into]
    ELSE [err |-> "", configs |-> Unmarshal(file.entries, into)]

\* a manager exists once NewConfigManager has returned one
HasManager ==
    /\ cmOp.op # "none"
    /\ ~(cmOp.op = "NewConfigManager" /\ cmOp.err # "")

\* NewConfigManager, lines 32-55: the error it returns.  dirOK: the home
\* directory is known and the configuration directory can be made
OpenError(dirOK, loadErr) ==
    IF ~dirOK THEN "mkdir"
    ELSE IF loadErr = "notexist" THEN ""
    ELSE loadErr

\* NewConfigManager: a new manager with an empty map, then LoadConfigs
NewConfigManager(dirOK, readOK) ==
    /\ LET ld == LoadConfigs(EmptyConfigs, configFile, readOK)
           e == OpenError(dirOK, ld.err)
       IN  /\ cmOp' = StoreOp("NewConfigManager", "", NoArg, e)
           /\ configs' = IF e = "" /\ dirOK THEN ld.configs ELSE EmptyConfigs
    /\ UNCHANGED configFile

\* AddConfig
AddConfig(c, w) ==
    /\ HasManager
    /\ LET e == AddConfigError(c)
           c2 == IF c.RemoteBase = ""
                 THEN [c EXCEPT !.RemoteBase = DefaultRemoteBase] ELSE c
           m == Put(configs, c.Name, c2)
           sv == SaveConfigs(m, configFile, w)
       IN  IF e # ""
           THEN /\ cmOp' = StoreOp("AddConfig", c.Name, c, e)
                /\ UNCHANGED <<configs, configFile>>
           ELSE /\ configs' = m
                /\ configFile' = sv.file
                /\ cmOp' = StoreOp("AddConfig", c.Name, c, sv.err)

\* GetConfig
GetConfig(name) ==
    /\ HasManager
    /\ cmOp' = StoreOp("GetConfig", name, NoArg,
                       IF name \in DOMAIN configs THEN "" ELSE "this is null")
    /\ UNCHANGED <<configs, configFile>>

\* RemoveConfig
RemoveConfig(name, w) ==
    /\ HasManager
    /\ IF name \notin DOMAIN configs
       THEN /\ cmOp' = StoreOp("RemoveConfig", name, NoArg, "this is null")
            /\ UNCHANGED <<configs, configFile>>
       ELSE LET m == Delete(configs, name)
                sv == SaveConfigs(m, configFile, w)
            IN  /\ configs' = m
                /\ configFile' = sv.file
                /\ cmOp' = StoreOp("RemoveConfig", name, NoArg, sv.err)

\* UpdateConfig
UpdateConfig(name, c, w) ==
    /\ HasManager
    /\ IF name \notin DOMAIN configs
       THEN /\ cmOp' = StoreOp("UpdateConfig", name, c, "this is null")
            /\ UNCHANGED <<configs, configFile>>
       ELSE LET m == Put(configs, name, [c EXCEPT !.Name = name])
                sv == SaveConfigs(m, configFile, w)
            IN  /\ configs' = m
                /\ configFile' = sv.file
                /\ cmOp' = StoreOp("UpdateConfig", name, c, sv.err)

(***************************************************************************)
(* Specifications                                                          *)
(***************************************************************************)
InitSyncVars ==
    /\ rseClient = FALSE
    /\ localFiles = EmptyInventory
    /\ remoteFiles = EmptyInventory
    /\ plan = EmptyPlan
    /\ result = EmptyResult
    /\ pc = "new"
    /\ idx = 1
    /\ calls = <<>>
    /\ retval = "none"
    /\ cmdErr = "none"

\* no ConfigManager has been made
NoManager ==
    /\ configs = EmptyConfigs
    /\ configFile = MissingFile
    /\ cmOp = NoStoreOp

\* the local sync command does not run
NoLocalSync ==
    /\ syncOptions = [SourcePath |-> "", DestPath |-> "", RuleFile |-> ""]
    /\ scanResult = [SourceFiles |-> <<>>, DestFiles |-> <<>>]
    /\ diffFiles = <<>>
    /\ copied = <<>>
    /\ runPc = "exit"
    /\ runErr = "none"

\* the scans are given as the inventories they deliver
NoScanInput ==
    /\ excludeList = <<>>
    /\ pyFiles = <<>>
    /\ findOutput = <<>>
    /\ now = 0

\* the target directory exists on the remote host
RemoteDirPresent == remoteDirExists = TRUE

\* FIleExists has not been called
NoStat == [stat |-> "none", exists |-> FALSE, err |-> FALSE]
NoStatCall == lastStat = NoStat

\* no call with a timeout is under way
NoWait ==
    /\ waitOp = "none"
    /\ worker = 0
    /\ caller = "none"
    /\ shared = [result |-> "nil", err |-> "nil"]
    /\ done = "open"
    /\ timer = "running"
    /\ returned = [result |-> "none", err |-> "none"]

InitClient ==
    /\ connected = FALSE
    /\ sshClient = 0
    /\ sftpClient = 0
    /\ openConns = {}
    /\ nextConn = 1
    /\ connectErr = "nil"
    /\ acceptedKey = "none"
    /\ presentedKey = "none"
    /\ hostStatus = "none"
    /\ nConnects = 0
    /\ lastOp = NoOp

\* SpecConn: one SSHClient, any configuration, any known-hosts file
InitConn ==
    /\ \E c \in SSHConfigs : config = NewSSHClient(c)
    /\ env \in Envs
    /\ knownHosts \in InitialStores(config)
    /\ InitClient
    /\ InitSyncVars
    /\ NoManager
    /\ NoLocalSync
    /\ NoScanInput
    /\ RemoteDirPresent
    /\ NoStatCall
    /\ NoWait
    /\ cmd = "sync"
    /\ options = [Direction |-> SyncToRemote, DryRun |-> FALSE,
                  Force |-> FALSE, DeleteExtra |-> FALSE,
                  Incremental |-> FALSE]

ConnectAny ==
    \E netOK \in BOOLEAN, key \in Keys, accepts \in ServerAccepts,
       sftpOK \in BOOLEAN, fsOK \in BOOLEAN :
         /\ Connect(netOK, key, accepts, sftpOK, fsOK)
         /\ UNCHANGED <<syncVars, storeVars,
                   localVars, scanVars,
                   remoteDirExists, lastStat, waitVars>>

CloseAny ==
    \E sftpOK \in BOOLEAN, sshOK \in BOOLEAN :
        Close(sftpOK, sshOK) /\ UNCHANGED <<syncVars, storeVars,
                   localVars, scanVars,
                   remoteDirExists, lastStat, waitVars>>

NextConn == ConnectAny \/ CloseAny

SpecConn == InitConn /\ [][NextConn]_vars

\* a client and an engine just built from a password profile
InitProfile ==
    /\ config = NewSSHClient([Host |-> <<"h", ":">>, Port |-> 0,
                              Password |-> "pw", KeyFile |-> "",
                              StrictHostCheck |-> FALSE])
    /\ env = [KeyState |-> "plain", Agent |-> FALSE,
              UnknownText |-> "knownhosts: key is unknown"]
    /\ knownHosts = [exists |-> FALSE, lines |-> <<>>]
    /\ InitClient
    /\ InitSyncVars
    /\ cmd = "sync"
    /\ options = [Direction |-> SyncToRemote, DryRun |-> FALSE,
                  Force |-> FALSE, DeleteExtra |-> FALSE,
                  Incremental |-> FALSE]

\* SpecCalls: one SSHClient built from a password profile; Connect, Close
\* and the six calls that need a connection, in any order
InitCalls ==
    /\ InitProfile /\ NoManager /\ NoLocalSync /\ NoScanInput
    /\ RemoteDirPresent /\ NoStatCall /\ NoWait

ConnectCall ==
    \E netOK \in BOOLEAN, accepts \in {{}, {"password"}},
       sftpOK \in BOOLEAN :
         /\ Connect(netOK, "k1", accepts, sftpOK, TRUE)
         /\ UNCHANGED <<syncVars, storeVars,
                   localVars, scanVars,
                   remoteDirExists, lastStat, waitVars>>

CallAny ==
    \E op \in ClientOps, notExist \in BOOLEAN :
        \E fail \in FailPoints(op) :
            /\ ClientCall(op, fail, notExist)
            /\ lastStat' = IF op = "FIleExists"
                           THEN FIleExists(connected,
                                           StatAnswer(fail, notExist))
                           ELSE lastStat
            /\ UNCHANGED <<syncVars, storeVars, localVars, scanVars,
                           remoteDirExists, waitVars>>

NextCalls == ConnectCall \/ CloseAny \/ CallAny

SpecCalls == InitCalls /\ [][NextCalls]_vars

\* SpecStore: the configuration store.  The document is absent, unparsable,
\* or was written by an earlier manager; NewConfigManager opens it.
InitialDocuments ==
    {MissingFile, BrokenFile,
     WriteFile(MissingFile,
               Marshal(Put(EmptyConfigs, "a",
                           [Name |-> "a",
                            SSH |-> [IsNil |-> FALSE, Host |-> "h",
                                     Username |-> "u"],
                            RemoteBase |-> "/srv"])), "ok")}

InitStore ==
    /\ InitProfile
    /\ configs = EmptyConfigs
    /\ configFile \in InitialDocuments
    /\ cmOp = NoStoreOp
    /\ NoLocalSync
    /\ NoScanInput
    /\ RemoteDirPresent
    /\ NoStatCall
    /\ NoWait

Open ==
    \E dirOK \in BOOLEAN, readOK \in BOOLEAN :
        NewConfigManager(dirOK, readOK) /\ UNCHANGED <<connVars, syncVars, localVars, scanVars,
                   remoteDirExists, lastStat, waitVars>>
Add ==
    \E c \in RemoteConfigs, w \in WriteOutcomes :
        AddConfig(c, w) /\ UNCHANGED <<connVars, syncVars, localVars, scanVars,
                   remoteDirExists, lastStat, waitVars>>
Get ==
    \E name \in Names :
        GetConfig(name) /\ UNCHANGED <<connVars, syncVars, localVars, scanVars,
                   remoteDirExists, lastStat, waitVars>>
Remove ==
    \E name \in Names, w \in WriteOutcomes :
        RemoveConfig(name, w) /\ UNCHANGED <<connVars, syncVars, localVars, scanVars,
                   remoteDirExists, lastStat, waitVars>>
Update ==
    \E name \in Names, c \in UpdateArgs, w \in WriteOutcomes :
        UpdateConfig(name, c, w) /\ UNCHANGED <<connVars, syncVars, localVars, scanVars,
                   remoteDirExists, lastStat, waitVars>>

NextStore == Open \/ Add \/ Get \/ Remove \/ Update

SpecStore == InitStore /\ [][NextStore]_vars

\* SpecPlan: calculateSyncPlan over every pair of inventories and every
\* setting of the direction and the flags
InitPlan ==
    /\ config = [Host |-> <<"h", ":">>, Port |-> DefaultPort,
                 Password |-> "pw", KeyFile |-> "", StrictHostCheck |-> FALSE]
    /\ env = [KeyState |-> "plain", Agent |-> FALSE,
              UnknownText |-> "knownhosts: key is unknown"]
    /\ knownHosts = [exists |-> FALSE, lines |-> <<>>]
    /\ InitClient
    /\ rseClient = FALSE
    /\ options \in {o \in SyncOptions : ~o.DryRun}
    /\ localFiles \in Inventories
    /\ remoteFiles \in Inventories
    /\ plan = EmptyPlan
    /\ result = EmptyResult
    /\ pc = "input"
    /\ idx = 1
    /\ calls = <<>>
    /\ retval = "none"
    /\ cmd = "sync"
    /\ cmdErr = "none"
    /\ NoManager
    /\ NoLocalSync
    /\ NoScanInput
    /\ RemoteDirPresent
    /\ NoStatCall
    /\ NoWait

\* mutation: the planner takes the paths it queues for download out of the
\* remote inventory
CalculatePlan_ConsumesRemote ==
    /\ pc \in {"input", "planned"}
    /\ \E rev \in BOOLEAN :
          plan' = calculateSyncPlanIn(localFiles, remoteFiles, options, rev)
    /\ remoteFiles' = [p \in DOMAIN remoteFiles \ PathsOf(plan'.Download)
                          |-> remoteFiles[p]]
    /\ pc' = "planned"
    /\ UNCHANGED <<connVars, rseClient, options, localFiles,
                   result, idx, calls, retval, cmd, cmdErr, storeVars,
                   localVars, scanVars,
                   remoteDirExists, lastStat, waitVars>>

\* a call of calculateSyncPlan, the first or a later one on the same inputs
CalculatePlan ==
    /\ pc \in {"input", "planned"}
    /\ \E rev \in BOOLEAN :
          plan' = calculateSyncPlanIn(localFiles, remoteFiles, options, rev)
    /\ pc' = "planned"
    /\ UNCHANGED <<connVars, rseClient, options, localFiles, remoteFiles,
                   result, idx, calls, retval, cmd, cmdErr, storeVars,
                   localVars, scanVars,
                   remoteDirExists, lastStat, waitVars>>

NextPlan == CalculatePlan

SpecPlan == InitPlan /\ [][NextPlan]_vars

\* SpecScan: SyncDirectory on a connected engine, up to the plan.  localFiles
\* and remoteFiles are the contents of the two directories, which the scans
\* deliver when they succeed.
InitScan ==
    /\ config = NewSSHClient([Host |-> <<"h", ":">>, Port |-> 0,
                              Password |-> "pw", KeyFile |-> "",
                              StrictHostCheck |-> FALSE])
    /\ env = [KeyState |-> "plain", Agent |-> FALSE,
              UnknownText |-> "knownhosts: key is unknown"]
    /\ knownHosts = [exists |-> FALSE, lines |-> <<>>]
    \* the client after RemoteSyncEngine.Connect returned nil
    /\ connected = TRUE
    /\ sshClient = 1
    /\ sftpClient = 1
    /\ openConns = {1}
    /\ nextConn = 2
    /\ connectErr = "nil"
    /\ acceptedKey = "k1"
    /\ presentedKey = "k1"
    /\ hostStatus = "none"
    /\ nConnects = 1
    /\ lastOp = OpRecord("Connect", FALSE, FALSE, TRUE, FALSE)
    /\ rseClient = TRUE
    /\ options \in {o \in SyncOptions : ~o.DryRun}
    /\ localFiles \in Inventories
    /\ remoteFiles \in Inventories
    /\ plan = EmptyPlan
    /\ result = EmptyResult
    /\ pc = "idle"
    /\ idx = 1
    /\ calls = <<>>
    /\ retval = "none"
    /\ cmd = "sync"
    /\ cmdErr = "none"
    /\ NoManager
    /\ NoLocalSync
    /\ NoScanInput
    /\ RemoteDirPresent
    /\ NoStatCall
    /\ NoWait

ScanAndPlan ==
    /\ pc = "idle"
    /\ \E mkdirOK \in BOOLEAN, scanOK \in BOOLEAN, findOK \in BOOLEAN :
          SyncDirectory(mkdirOK, scanOK, findOK, localFiles, remoteFiles)

NextScan == ScanAndPlan

SpecScan == InitScan /\ [][NextScan]_vars

\* Spec: the remote sync command (remoteSyncCmd.RunE) and the remote test
\* command (remoteTestCmd.RunE) with a password profile.
\* pc: "new" (engine or client about to be built), "idle" (sync: connected,
\* Disconnect deferred), "upload" / "download" / "delete" (inside
\* executeSyncPlan), "exec" (test: connected, Close deferred), "done" (the
\* body of RunE is over, the deferred call is due), "exit" (RunE returned)
DefaultOptions ==
    [Direction |-> SyncToRemote, DryRun |-> FALSE, Force |-> FALSE,
     DeleteExtra |-> FALSE, Incremental |-> FALSE]

Init ==
    /\ \E strict \in BOOLEAN :
          config = [Host |-> <<"h", ":">>, Port |-> 0, Password |-> "pw",
                    KeyFile |-> "", StrictHostCheck |-> strict]
    /\ \E text \in UnknownTexts :
          /\ env = [KeyState |-> "plain", Agent |-> FALSE,
                    UnknownText |-> text]
          \* strict checking comes with the text the wrapper looks for:
          \* the host, unknown to the empty store, is then rejected
          /\ ContainsNoHostkeyFound(text) <=> config.StrictHostCheck
    /\ knownHosts = [exists |-> FALSE, lines |-> <<>>]
    /\ InitClient
    /\ InitSyncVars
    /\ NoManager
    /\ NoLocalSync
    /\ NoScanInput
    /\ RemoteDirPresent
    /\ NoStatCall
    /\ NoWait
    /\ \/ cmd = "sync" /\ options \in SyncOptions
       \/ cmd = "test" /\ options = DefaultOptions

\* mutation: the command goes on after a failed Connect
AfterConnect_IgnoreError(c, err) ==
    IF c = "sync" THEN "idle" ELSE "exec"

\* RunE: `if err := Connect(); err != nil { return ... }`
AfterConnect(c, err) ==
    IF err # "nil" THEN "exit"
    ELSE IF c = "sync" THEN "idle" ELSE "exec"

\* mutation: per-item errors in the result make the command fail
CommandResult_FailOnItemErrors(ret, res) ==
    IF ret # "nil" \/ res.ErrorFiles > 0 THEN "err" ELSE "nil"

\* RunE: what the command returns once its body is over.  ret: the error of
\* SyncDirectory or ExecuteCommand; res: the SyncResult, which is printed only
CommandResult(ret, res) ==
    IF ret # "nil" THEN "err" ELSE "nil"

\* remoteSyncCmd.RunE: engine.Connect(); an error ends the command
RunConnect ==
    /\ cmd = "sync"
    /\ pc = "new"
    /\ \E netOK \in BOOLEAN, accepts \in {{}, {"password"}},
          sftpOK \in BOOLEAN :
            EngineConnect(netOK, "k1", accepts, sftpOK, TRUE)
    /\ pc' = AfterConnect(cmd, connectErr')
    /\ cmdErr' = IF pc' = "exit" THEN "err" ELSE "none"

\* remoteSyncCmd.RunE: engine.SyncDirectory(localPath, remotePath).  The
\* outcomes of the calls it makes before planning: mkdir fails; the local
\* scan fails; the listing fails (empty remote inventory); all succeed.
RunSyncDirectory ==
    /\ pc = "idle"
    /\ \/ SyncDirectory(FALSE, TRUE, TRUE, EmptyInventory, EmptyInventory)
       \/ SyncDirectory(TRUE, FALSE, TRUE, EmptyInventory, EmptyInventory)
       \/ \E lf \in Inventories :
             SyncDirectory(TRUE, TRUE, FALSE, lf, EmptyInventory)
       \/ \E lf \in Inventories, rf \in Inventories :
             SyncDirectory(TRUE, TRUE, TRUE, lf, rf)

\* remoteSyncCmd.RunE returns: the deferred engine.Disconnect() runs
RunDisconnect ==
    /\ cmd = "sync"
    /\ pc = "done"
    /\ \E sftpOK \in BOOLEAN, sshOK \in BOOLEAN : Disconnect(sftpOK, sshOK)
    /\ pc' = "exit"
    /\ cmdErr' = CommandResult(retval, result)

\* remoteTestCmd.RunE: NewSSHClient(config.SSH), client.Connect()
TestConnect ==
    /\ cmd = "test"
    /\ pc = "new"
    /\ \E netOK \in BOOLEAN, accepts \in {{}, {"password"}},
          sftpOK \in BOOLEAN :
            NewClientConnect(netOK, "k1", accepts, sftpOK, TRUE)
    /\ pc' = AfterConnect(cmd, connectErr')
    /\ cmdErr' = IF pc' = "exit" THEN "err" ELSE "none"
    /\ UNCHANGED <<rseClient, options, localFiles, remoteFiles, plan, result,
                   idx, calls, retval, cmd, storeVars,
                   localVars, scanVars,
                   remoteDirExists, lastStat, waitVars>>

\* remoteTestCmd.RunE: client.ExecuteCommand("echo ...")
TestExecute ==
    /\ cmd = "test"
    /\ pc = "exec"
    /\ \E fail \in FailPoints("ExecuteCommand") :
          ClientCall("ExecuteCommand", fail, FALSE)
    /\ retval' = IF lastOp'.err THEN "err:exec" ELSE "nil"
    /\ pc' = "done"
    /\ UNCHANGED <<rseClient, options, localFiles, remoteFiles, plan, result,
                   idx, calls, cmd, cmdErr, storeVars,
                   localVars, scanVars,
                   remoteDirExists, lastStat, waitVars>>

\* remoteTestCmd.RunE returns: the deferred client.Close() runs
TestClose ==
    /\ cmd = "test"
    /\ pc = "done"
    /\ \E sftpOK \in BOOLEAN, sshOK \in BOOLEAN : Close(sftpOK, sshOK)
    /\ pc' = "exit"
    /\ cmdErr' = CommandResult(retval, result)
    /\ UNCHANGED <<rseClient, options, localFiles, remoteFiles, plan, result,
                   idx, calls, retval, cmd, storeVars,
                   localVars, scanVars,
                   remoteDirExists, lastStat, waitVars>>

Next ==
    \/ RunConnect
    \/ RunSyncDirectory
    \/ UploadStep
    \/ DownloadStep
    \/ DeleteStep
    \/ RunDisconnect
    \/ TestConnect
    \/ TestExecute
    \/ TestClose

Spec == Init /\ [][Next]_vars

(***************************************************************************)
(* Properties                                                              *)
(***************************************************************************)
\* the known-hosts lines stored for the address the client dials
LinesForHost == {i \in 1..Len(knownHosts.lines) :
                    LineHost(knownHosts.lines[i]) = DialAddr(config)}

\* C1: with strict host checking, when the host presented a key that differs
\* from the one stored for it, Connect failed with the host-key error and the
\* client is not connected.  (SpecConn)
C1_MismatchedKeyRejected ==
    (config.StrictHostCheck /\ hostStatus = "mismatch")
        => (connectErr = "dial:hostkey" /\ ~connected /\ acceptedKey = "none")

\* C2: with strict host checking, when the host had no entry in the store
\* (and the store could be written), the presented key was accepted and the
\* store holds exactly one entry for the host, carrying that key.  (SpecConn)
C2_UnknownHostAcceptedAndAppended ==
    (config.StrictHostCheck /\ hostStatus = "unknown"
       /\ connectErr # "dial:hostkey:add")
        => /\ acceptedKey = presentedKey
           /\ connectErr # "dial:hostkey"
           /\ Cardinality(LinesForHost) = 1
           /\ \A i \in LinesForHost : presentedKey \in
                 {knownHosts.lines[i][j] : j \in 1..Len(knownHosts.lines[i])}

\* the calls executeSyncPlan has made, in order
IsExecCall(c) == c.op \in {"UploadFile", "DownloadFile", "rm"}
ExecLog == SelectSeq(calls, IsExecCall)
FailedCalls == {i \in 1..Len(ExecLog) : ~ExecLog[i].ok}

\* the items of the plan in the order of the three collections
PlanOps ==
    [i \in 1..Len(plan.Upload) |->
        [op |-> "UploadFile", path |-> plan.Upload[i].RemotePath]]
    \o [i \in 1..Len(plan.Download) |->
        [op |-> "DownloadFile", path |-> plan.Download[i].RemotePath]]
    \o [i \in 1..Len(plan.Delete) |->
        [op |-> "rm", path |-> plan.Delete[i].RemotePath]]

\* C3: executeSyncPlan attempts the items of the plan one after the other,
\* each exactly once, whatever failed before; every failure adds one to
\* ErrorFiles and one message to Errors; when it returns, every item has been
\* attempted and the error it returns is nil.  (Spec)
C3_EveryItemAttemptedOnce ==
    ~options.DryRun =>
        /\ Len(ExecLog) <= Len(PlanOps)
        /\ \A i \in 1..Len(ExecLog) :
              /\ ExecLog[i].op = PlanOps[i].op
              /\ ExecLog[i].path = PlanOps[i].path
        /\ result.ErrorFiles = Cardinality(FailedCalls)
        /\ Len(result.Errors) = result.ErrorFiles
        /\ (retval # "none" /\ PlanSize(plan) > 0) =>
              (Len(ExecLog) = Len(PlanOps) /\ retval = "nil")

\* a run that went on after a failure: a failed item, then a successful one
C3_Witness ==
    /\ pc = "done"
    /\ retval = "nil"
    /\ \E i, j \in 1..Len(ExecLog) : i < j /\ ~ExecLog[i].ok /\ ExecLog[j].ok
    /\ ~ExecLog[Len(ExecLog)].ok

PhaseRank(op) ==
    IF op = "UploadFile" THEN 1 ELSE IF op = "DownloadFile" THEN 2 ELSE 3
CallsOf(op) == {i \in 1..Len(ExecLog) : ExecLog[i].op = op}

\* C4: every upload attempt precedes every download attempt, every download
\* attempt precedes every deletion, and a phase starts only when every item
\* of the earlier phases has been attempted.  (Spec)
C4_PhasesInOrder ==
    /\ \A i, j \in 1..Len(ExecLog) :
          i < j => PhaseRank(ExecLog[i].op) <= PhaseRank(ExecLog[j].op)
    /\ (CallsOf("DownloadFile") # {} \/ CallsOf("rm") # {})
          => Cardinality(CallsOf("UploadFile")) = Len(plan.Upload)
    /\ CallsOf("rm") # {}
          => Cardinality(CallsOf("DownloadFile")) = Len(plan.Download)

\* a finished run whose plan had items in all three collections
C4_Witness ==
    /\ pc = "done"
    /\ CallsOf("UploadFile") # {}
    /\ CallsOf("DownloadFile") # {}
    /\ CallsOf("rm") # {}

\* C5: with DryRun no upload, download or remote delete is ever issued and
\* executeSyncPlan is never entered; the result returned has TotalFiles equal
\* to the size of the plan, every other counter zero and no error message.
\* (Spec)
C5_DryRunExecutesNothing ==
    options.DryRun =>
        /\ ExecLog = <<>>
        /\ pc \notin {"upload", "download", "delete"}
        /\ retval = "nil" =>
              result = [EmptyResult EXCEPT !.TotalFiles = PlanSize(plan)]

\* a dry run that returned a plan with several items
C5_Witness ==
    /\ options.DryRun
    /\ retval = "nil"
    /\ PlanSize(plan) >= 2
    /\ result.TotalFiles = PlanSize(plan)

\* paths held by both inventories / with the same size and time on both sides
Common == DOMAIN localFiles \cap DOMAIN remoteFiles
SameOnBothSides(p) ==
    /\ localFiles[p].ModTime = remoteFiles[p].ModTime
    /\ localFiles[p].Size = remoteFiles[p].Size
Uploads == PathsOf(plan.Upload)
Downloads == PathsOf(plan.Download)
Deletes == PathsOf(plan.Delete)
ItemsFor(items, p) == {i \in 1..Len(items) : items[i].RemotePath = p}

\* C6 as claimed: a path with equal time and size on both sides is queued
\* neither for upload nor for download, whatever the direction and the
\* incremental and force flags; identical inventories give an empty plan.
\* (SpecPlan)
C6_EqualNeverTransferred_AnyFlags ==
    pc = "planned" =>
        /\ \A p \in Common :
              SameOnBothSides(p) => (p \notin Uploads /\ p \notin Downloads)
        /\ localFiles = remoteFiles => plan = EmptyPlan

\* C6 as amended: the same, provided incremental mode is on or force is
\* unset.  (SpecPlan)
C6_EqualNeverTransferred ==
    (pc = "planned" /\ (options.Incremental \/ ~options.Force)) =>
        /\ \A p \in Common :
              SameOnBothSides(p) => (p \notin Uploads /\ p \notin Downloads)
        /\ localFiles = remoteFiles => plan = EmptyPlan

\* identical non-empty inventories planned in both directions with force set
\* and incremental mode on
C6_Witness ==
    /\ pc = "planned"
    /\ options.Incremental /\ options.Force /\ options.DeleteExtra
    /\ options.Direction = SyncBoth
    /\ localFiles = remoteFiles
    /\ DOMAIN localFiles = Paths
    /\ plan = EmptyPlan

\* C7: with direction toRemote a file held locally and absent remotely gets
\* exactly one upload item, and no download and no delete item, whatever the
\* incremental, force and deleteExtra flags are.  (SpecPlan)
C7_LocalOnlyUploadedOnce ==
    (pc = "planned" /\ options.Direction = SyncToRemote) =>
        \A p \in DOMAIN localFiles \ DOMAIN remoteFiles :
            /\ Cardinality(ItemsFor(plan.Upload, p)) = 1
            /\ ItemsFor(plan.Download, p) = {}
            /\ ItemsFor(plan.Delete, p) = {}

\* a local-only file planned toRemote with deleteExtra set and force unset,
\* next to a remote-only file that is deleted
C7_Witness ==
    /\ pc = "planned"
    /\ options.Direction = SyncToRemote
    /\ options.DeleteExtra /\ ~options.Force /\ ~options.Incremental
    /\ \E p \in DOMAIN localFiles \ DOMAIN remoteFiles : p \in Uploads
    /\ Deletes # {}

\* C8: in incremental mode with direction toRemote or bidirectional, a path
\* held by both sides with equal sizes is queued for upload exactly when the
\* local modification time is strictly newer than the remote one.  (SpecPlan)
C8_IncrementalUploadIffNewer ==
    (pc = "planned" /\ options.Incremental
       /\ IncludesToRemote(options.Direction)) =>
        \A p \in Common :
            localFiles[p].Size = remoteFiles[p].Size =>
                (p \in Uploads <=>
                    localFiles[p].ModTime > remoteFiles[p].ModTime)

\* one path with a newer local copy is queued, another of equal size with an
\* older local copy is not
C8_Witness ==
    /\ pc = "planned"
    /\ options.Incremental
    /\ IncludesToRemote(options.Direction)
    /\ \E p, q \in Common :
          /\ localFiles[p].Size = remoteFiles[p].Size
          /\ localFiles[q].Size = remoteFiles[q].Size
          /\ localFiles[p].ModTime > remoteFiles[p].ModTime
          /\ localFiles[q].ModTime < remoteFiles[q].ModTime
          /\ p \in Uploads /\ q \notin Uploads

\* C9: the delete set is exactly the remote paths absent from the local
\* inventory (one item each) when deleteExtra is set and the direction is
\* toRemote or bidirectional, and it is empty otherwise.  (SpecPlan)
C9_DeleteSetExact ==
    pc = "planned" =>
        IF options.DeleteExtra /\ options.Direction \in {SyncToRemote, SyncBoth}
        THEN /\ Deletes = DOMAIN remoteFiles \ DOMAIN localFiles
             /\ Len(plan.Delete) = Cardinality(Deletes)
        ELSE plan.Delete = <<>>

\* a bidirectional plan that deletes a remote-only path and keeps a shared one
C9_Witness ==
    /\ pc = "planned"
    /\ options.DeleteExtra /\ options.Direction = SyncBoth
    /\ Deletes # {}
    /\ Common # {}
    /\ Deletes = DOMAIN remoteFiles \ DOMAIN localFiles

\* C10: no relative path has items in two of the Upload, Download and Delete
\* collections of one plan.  (SpecPlan)
C10_CollectionsDisjoint ==
    pc = "planned" =>
        /\ Uploads \cap Downloads = {}
        /\ Uploads \cap Deletes = {}
        /\ Downloads \cap Deletes = {}

\* C11: in the remote sync command, when Connect failed (network failure,
\* no credential accepted, host key rejected, or any earlier step) the
\* command has returned an error and no directory was made, no inventory
\* scanned, no upload, download or deletion attempted.  (Spec)
C11_ConnectFailureEndsRun ==
    (cmd = "sync" /\ connectErr # "nil") =>
        /\ pc = "exit"
        /\ cmdErr = "err"
        /\ calls = <<>>
        /\ retval = "none"
        /\ lastOp.op = "Connect"

\* the server accepted none of the credentials: the command is over
C11_Witness ==
    /\ cmd = "sync"
    /\ connectErr = "dial:auth"
    /\ pc = "exit"
    /\ cmdErr = "err"
    /\ calls = <<>>

\* no step of the run failed other than items of the plan
OnlyItemFailures ==
    /\ connectErr = "nil"
    /\ \A i \in 1..Len(calls) : calls[i].op \in {"mkdir", "walk"} => calls[i].ok

\* C12: when the only failures of a run are failed uploads, downloads or
\* deletions, SyncDirectory returns nil as its error, the failures are counted
\* in ErrorFiles with one entry of Errors each, and the remote sync command
\* returns nil.  (Spec)
C12_ItemFailuresAreNotFatal ==
    (cmd = "sync" /\ OnlyItemFailures) =>
        /\ retval \in {"none", "nil"}
        /\ cmdErr \in {"none", "nil"}
        /\ result.ErrorFiles = Cardinality(FailedCalls)
        /\ Len(result.Errors) = result.ErrorFiles
        /\ pc = "exit" => cmdErr = "nil"

\* a run in which every item failed, reported as successful
C12_Witness ==
    /\ cmd = "sync"
    /\ pc = "exit"
    /\ cmdErr = "nil"
    /\ retval = "nil"
    /\ result.ErrorFiles >= 2
    /\ result.ErrorFiles = result.TotalFiles

\* C20: when a command has returned, no connection it opened is still open
\* and the client is not connected; a Connect that failed at the SFTP client
\* has closed the SSH connection it dialled and left the client not
\* connected.  (Spec)
C20_NoConnectionOutlivesCommand ==
    /\ pc = "exit" => (openConns = {} /\ ~connected)
    /\ connectErr = "sftp" =>
          (~connected /\ sshClient # 0 /\ sshClient \notin openConns)

\* a command that connected, failed in its body and returned with the
\* connection closed
C20_Witness ==
    /\ pc = "exit"
    /\ cmdErr = "err"
    /\ connectErr = "nil"
    /\ sshClient # 0
    /\ lastOp.op = "Close" /\ lastOp.conn
    /\ openConns = {}

\* what Close leaves behind, whatever the state it was called in; called on
\* a client that is not connected it returns nil and closes nothing
CloseLeavesClientClosed ==
    lastOp.op = "Close" =>
        /\ ~connected
        /\ sshClient \notin openConns
        /\ ~lastOp.conn => (~lastOp.err /\ ~lastOp.remote)

\* a Close on a client that is not connected changes nothing of the client
CloseOnClosedIsNoOp ==
    (lastOp'.op = "Close" /\ ~lastOp'.conn) =>
        UNCHANGED <<config, connected, sshClient, sftpClient, openConns,
                    nextConn, knownHosts, connectErr>>

\* C13: Close is idempotent and safe in every state: on a client that never
\* connected it returns nil and does nothing; after a successful Connect it
\* closes the SFTP client and the SSH connection and leaves the client not
\* connected; every further Close returns nil and changes nothing.  (SpecConn)
C13_CloseIdempotent ==
    [](CloseLeavesClientClosed) /\ [][CloseOnClosedIsNoOp]_vars

\* a second Close on a client that had connected and was closed
C13_Witness ==
    /\ lastOp.op = "Close"
    /\ ~lastOp.conn /\ ~lastOp.err
    /\ connectErr = "nil"
    /\ sshClient # 0 /\ sftpClient # 0
    /\ ~connected

\* C14: ExecuteCommand, UploadFile, DownloadFile, ListDirectory, FIleExists
\* and GetFileInfo, called on a client that is not connected, return an error,
\* send nothing to the server and create no local file.  (SpecCalls)
C14_CallsNeedConnection ==
    (lastOp.op \in ClientOps /\ ~lastOp.conn) =>
        (lastOp.err /\ ~lastOp.remote /\ ~lastOp.local)

\* DownloadFile called after a Connect that failed at the SFTP client
C14_Witness ==
    /\ lastOp.op = "DownloadFile"
    /\ ~lastOp.conn
    /\ lastOp.err
    /\ connectErr = "sftp"
    /\ ~connected

\* a method addAuthMethods can offer: a password, a key file that loads, an
\* agent
HasUsableMethod ==
    \/ config.Password # ""
    \/ config.KeyFile # "" /\ loadPrivateKey(config, env)
    \/ env.Agent

\* C15: Connect fails for lack of credentials, before dialling, only when no
\* method can be offered: a key file that cannot be read or decoded does not
\* stop a client that has a password or an agent.  (SpecConn)
C15_AuthFailsOnlyWithoutMethod ==
    connectErr = "auth" => ~HasUsableMethod

\* the remote listing command of the run failed
FindFailed == \E i \in 1..Len(calls) : calls[i].op = "find" /\ ~calls[i].ok

\* C16: when the remote listing command fails, scanRemoteFiles returns the
\* empty inventory and no error and SyncDirectory goes on to the plan; with
\* direction toRemote every local file is queued for upload, once, and
\* nothing is queued for download or deletion.  (SpecScan)
C16_FailedListingIsEmptyInventory ==
    FindFailed =>
        /\ retval \in {"none", "nil"}
        /\ pc \in {"upload", "download", "delete", "done"}
        /\ plan = calculateSyncPlan(localFiles, EmptyInventory, options)
        /\ options.Direction = SyncToRemote =>
              /\ Uploads = DOMAIN localFiles
              /\ Len(plan.Upload) = Cardinality(DOMAIN localFiles)
              /\ plan.Download = <<>>
              /\ plan.Delete = <<>>

\* the listing of a remote directory that holds files failed, with deleteExtra
\* set: every local file is queued for upload, nothing for deletion
C16_Witness ==
    /\ FindFailed
    /\ options.Direction = SyncToRemote
    /\ options.DeleteExtra
    /\ DOMAIN localFiles = Paths
    /\ DOMAIN remoteFiles # {}
    /\ Uploads = Paths
    /\ plan.Delete = <<>>
    /\ pc = "upload"

\* the first of the four things AddConfig requires that a profile lacks
FirstMissing(c) ==
    IF c.Name = "" THEN "name"
    ELSE IF c.SSH.IsNil THEN "ssh"
    ELSE IF c.SSH.Host = "" THEN "host"
    ELSE IF c.SSH.Username = "" THEN "username"
    ELSE "none"

\* what a manager opened on the document would hold
Persisted == LoadConfigs(EmptyConfigs, configFile, TRUE).configs

\* C17: AddConfig rejects a profile that lacks a name, an SSH target, a host
\* or a username, with an error that tells which of the four is missing (no
\* profile lacking something else gets the same error); a profile that lacks
\* none is stored under its name and written to the document.  (SpecStore)
C17_AddConfigErrorNamesField ==
    cmOp.op = "AddConfig" =>
        /\ FirstMissing(cmOp.arg) # "none" =>
              /\ cmOp.err \notin {"", "write"}
              /\ \A c \in RemoteConfigs :
                    AddConfigError(c) = cmOp.err =>
                        FirstMissing(c) = FirstMissing(cmOp.arg)
        /\ (FirstMissing(cmOp.arg) = "none" /\ cmOp.err = "") =>
              /\ cmOp.name \in DOMAIN configs
              /\ configs[cmOp.name].SSH = cmOp.arg.SSH
              /\ cmOp.name \in DOMAIN Persisted
              /\ Persisted[cmOp.name] = configs[cmOp.name]

StoreCalls == {"AddConfig", "GetConfig", "RemoveConfig", "UpdateConfig"}

\* a call on a name the store does not hold fails with the not-found error
MissingNameFails ==
    (cmOp'.op \in {"GetConfig", "RemoveConfig", "UpdateConfig"}
       /\ cmOp'.name \notin DOMAIN configs) => cmOp'.err = "this is null"

\* a call that returns an error changes neither the map nor the document
FailedCallChangesNothing ==
    (cmOp'.op \in StoreCalls /\ cmOp'.err # "") =>
        UNCHANGED <<configs, configFile>>

\* C18: GetConfig, RemoveConfig and UpdateConfig on a name the store does not
\* hold fail with the not-found error, and every call on the store that
\* returns an error (validation, not found, failed write) leaves the map in
\* memory and the document as they were.  (SpecStore)
C18_FailedCallLeavesStore ==
    [][MissingNameFails /\ FailedCallChangesNothing]_vars

\* C19: after every AddConfig, RemoveConfig or UpdateConfig that returned
\* nil the document holds exactly the profiles of the map in memory, one entry
\* each; a manager opened on a document holds exactly what the document
\* holds, and a missing document opens as an empty store without an error
\* (provided the configuration directory can be made).  (SpecStore)
C19_DocumentMirrorsStore ==
    /\ (cmOp.op \in {"AddConfig", "RemoveConfig", "UpdateConfig"}
          /\ cmOp.err = "") =>
            /\ configFile.exists /\ configFile.valid
            /\ Len(configFile.entries) = Cardinality(DOMAIN configs)
            /\ Persisted = configs
    /\ (cmOp.op = "NewConfigManager" /\ cmOp.err = "") =>
            configs = Persisted
    /\ (cmOp.op = "NewConfigManager" /\ ~configFile.exists
          /\ cmOp.err # "mkdir") =>
            (cmOp.err = "" /\ configs = EmptyConfigs)

\* a store of two profiles from which one was removed: the document was
\* rewritten with the one that is left
C19_Witness ==
    /\ cmOp.op = "RemoveConfig"
    /\ cmOp.err = ""
    /\ DOMAIN configs = {"b"}
    /\ Len(configFile.entries) = 1
    /\ Persisted = configs

\* a non-dry run of the sync command whose SyncDirectory has returned after
\* executing its plan
PlanExecuted ==
    /\ cmd = "sync"
    /\ ~options.DryRun
    /\ retval = "nil"
    /\ pc \in {"done", "exit"}

\* the outcomes counted so far
Counted ==
    result.UploadedFiles + result.DownloadFiles + result.DeletedFiles
        + result.ErrorFiles

\* C21: while a plan executes every attempted item is counted in exactly one
\* of the four counters; once it has executed, under any pattern of successes
\* and failures, UploadedFiles + DownloadFiles + DeletedFiles + ErrorFiles =
\* TotalFiles and Errors has ErrorFiles entries; when every operation
\* succeeded the three success counters are the sizes of the upload, download
\* and delete sets and ErrorFiles = 0.  (Spec)
C21_CountersAddUp ==
    /\ (cmd = "sync" /\ ~options.DryRun) =>
          /\ Counted = Len(ExecLog)
          /\ Len(result.Errors) = result.ErrorFiles
    /\ PlanExecuted =>
          /\ result.TotalFiles = PlanSize(plan)
          /\ Counted = result.TotalFiles
          /\ FailedCalls = {} =>
                /\ result.UploadedFiles = Len(plan.Upload)
                /\ result.DownloadFiles = Len(plan.Download)
                /\ result.DeletedFiles = Len(plan.Delete)
                /\ result.ErrorFiles = 0

\* an executed plan of three items: one uploaded, one downloaded and a
\* deletion that failed
C21_Witness ==
    /\ PlanExecuted
    /\ result.TotalFiles = 3
    /\ result.UploadedFiles = 1
    /\ result.DownloadFiles = 1
    /\ result.DeletedFiles = 0
    /\ result.ErrorFiles = 1
    /\ Len(result.Errors) = 1

\* the three collections of a plan as sets of items
PlanSets(p) ==
    [Upload   |-> {p.Upload[i] : i \in 1..Len(p.Upload)},
     Download |-> {p.Download[i] : i \in 1..Len(p.Download)},
     Delete   |-> {p.Delete[i] : i \in 1..Len(p.Delete)}]

\* a step to a computed plan
PlannerReturned == pc' = "planned"

\* C22: calculateSyncPlan has no side effects: a call changes neither
\* inventory, nor the options, nor the profile, nor the client, and performs
\* no transport operation; a further call with the same inputs yields the
\* same upload, download and delete sets, whatever order the maps are
\* visited in.  (SpecPlan)
C22_PlanningIsPure ==
    [][PlannerReturned =>
          /\ UNCHANGED <<localFiles, remoteFiles, options, config, calls,
                         result, connVars, storeVars>>
          /\ pc = "planned" => PlanSets(plan') = PlanSets(plan)]_vars

\* a second call returned the same two uploads in the other order
C22_Witness ==
    /\ pc = "planned"
    /\ Len(plan.Upload) = 2
    /\ plan.Upload # calculateSyncPlan(localFiles, remoteFiles, options).Upload

\* the lines of the known-hosts file after a step are those before it and
\* one more, for the address the client dials
OneEntryAppended ==
    /\ Len(knownHosts'.lines) = Len(knownHosts.lines) + 1
    /\ SubSeq(knownHosts'.lines, 1, Len(knownHosts.lines)) = knownHosts.lines
    /\ LineHost(knownHosts'.lines[Len(knownHosts'.lines)]) = DialAddr(config)

\* C23: the entries of the known-hosts store change only by one entry being
\* appended for a host that had none; they are unchanged when the presented
\* key conflicts with an entry and when it matches one; with strict checking
\* off every presented key is accepted and the store is neither read nor
\* written.  (SpecConn)
C23_StoreOnlyGrowsForUnknownHost ==
    [][/\ knownHosts'.lines # knownHosts.lines =>
             /\ config.StrictHostCheck
             /\ hostStatus' = "unknown"
             /\ KnownHostsCheck(knownHosts.lines, DialAddr(config),
                                presentedKey') = "unknown"
             /\ OneEntryAppended
       /\ hostStatus' \in {"ok", "mismatch"} =>
             knownHosts'.lines = knownHosts.lines
       /\ ~config.StrictHostCheck =>
             /\ knownHosts' = knownHosts
             /\ hostStatus' = "none"
             /\ presentedKey' # "none" => acceptedKey' = presentedKey']_vars

\* the file held an entry for another host when an unknown host presented its
\* key, and now holds a second entry, for that host
C23_Witness ==
    /\ config.StrictHostCheck
    /\ hostStatus = "unknown"
    /\ Len(knownHosts.lines) = 2
    /\ LineHost(knownHosts.lines[1]) = <<"other">>
    /\ knownHosts.lines[2] = HostKeyEntry(DialAddr(config), presentedKey)

ToRemoteSide == options.Direction \in {SyncToRemote, SyncBoth}
FromRemoteSide == options.Direction \in {SyncFromRemote, SyncBoth}
LocalOnly == DOMAIN localFiles \ DOMAIN remoteFiles
RemoteOnly == DOMAIN remoteFiles \ DOMAIN localFiles

\* C25: with incremental mode off, a path held by both inventories is queued
\* for upload (direction toRemote or bidirectional) exactly when force is set
\* and for download (direction fromRemote or bidirectional) exactly when force
\* is set, whatever the times and sizes; a path held by one side only is
\* queued for transfer to the other side whether or not force is set.
\* (SpecPlan)
C25_NonIncrementalFollowsForce ==
    (pc = "planned" /\ ~options.Incremental) =>
        /\ ToRemoteSide =>
              /\ \A p \in Common : p \in Uploads <=> options.Force
              /\ LocalOnly \subseteq Uploads
        /\ FromRemoteSide =>
              /\ \A p \in Common : p \in Downloads <=> options.Force
              /\ RemoteOnly \subseteq Downloads

\* a bidirectional plan without incremental mode and without force: the path
\* both sides hold, in different sizes, is not transferred, the path one side
\* holds is
C25_Witness ==
    /\ pc = "planned"
    /\ ~options.Incremental /\ ~options.Force
    /\ options.Direction = SyncBoth
    /\ \E p \in Common :
          /\ localFiles[p].Size # remoteFiles[p].Size
          /\ p \notin Uploads \cup Downloads
    /\ \E q \in RemoteOnly : q \in Downloads

\* what the incremental download test selects
IncrementalDownloads ==
    {p \in DOMAIN remoteFiles :
        \/ p \notin DOMAIN localFiles
        \/ remoteFiles[p].ModTime > localFiles[p].ModTime
        \/ remoteFiles[p].Size # localFiles[p].Size}

\* C26: in incremental mode with direction fromRemote or bidirectional the
\* download set is exactly the remote paths that are absent locally, or whose
\* remote time is strictly newer than the local one, or whose sizes differ;
\* with direction toRemote the download set is empty; with direction
\* fromRemote the upload and delete sets are empty.  (SpecPlan)
C26_IncrementalDownloadSet ==
    pc = "planned" =>
        /\ (options.Incremental /\ FromRemoteSide) =>
              /\ Downloads = IncrementalDownloads
              /\ Len(plan.Download) = Cardinality(Downloads)
        /\ options.Direction = SyncToRemote => plan.Download = <<>>
        /\ options.Direction = SyncFromRemote =>
              (plan.Upload = <<>> /\ plan.Delete = <<>>)

\* an incremental fromRemote plan that downloads a newer remote copy of equal
\* size and leaves an older one alone, with deleteExtra set and a path only
\* the local side holds
C26_Witness ==
    /\ pc = "planned"
    /\ options.Incremental /\ options.DeleteExtra
    /\ options.Direction = SyncFromRemote
    /\ \E p, q \in Common :
          /\ remoteFiles[p].Size = localFiles[p].Size
          /\ remoteFiles[p].ModTime > localFiles[p].ModTime
          /\ remoteFiles[q] = localFiles[q]
          /\ Downloads = {p}
    /\ plan.Upload = <<>>

\* C27: in a bidirectional incremental plan a path held by both inventories
\* with different sizes is queued both for upload and for download; with
\* equal sizes it is queued at most once: for upload exactly when the local
\* time is strictly newer, for download exactly when the remote time is
\* strictly newer.  (SpecPlan)
C27_BidirectionalCommonPath ==
    (pc = "planned" /\ options.Incremental /\ options.Direction = SyncBoth) =>
        \A p \in Common :
            IF localFiles[p].Size # remoteFiles[p].Size
            THEN p \in Uploads /\ p \in Downloads
            ELSE /\ p \in Uploads <=>
                       localFiles[p].ModTime > remoteFiles[p].ModTime
                 /\ p \in Downloads <=>
                       remoteFiles[p].ModTime > localFiles[p].ModTime
                 /\ ~(p \in Uploads /\ p \in Downloads)

\* a bidirectional incremental plan with a path of different sizes with equal
\* times, queued both ways, and a path of equal sizes queued for download only
C27_Witness ==
    /\ pc = "planned"
    /\ options.Incremental
    /\ options.Direction = SyncBoth
    /\ \E p, q \in Common :
          /\ localFiles[p].Size # remoteFiles[p].Size
          /\ localFiles[p].ModTime = remoteFiles[p].ModTime
          /\ p \in Uploads \cap Downloads
          /\ localFiles[q].Size = remoteFiles[q].Size
          /\ q \in Downloads \ Uploads

\* C28: no remote path queued for deletion is also queued for upload.
\* (SpecPlan)
C28_DeleteNeverUploaded ==
    pc = "planned" =>
        /\ Deletes \cap Uploads = {}
        /\ \A i \in 1..Len(plan.Delete), j \in 1..Len(plan.Upload) :
              plan.Delete[i].RemotePath # plan.Upload[j].RemotePath

\* a plan that uploads one path and deletes another
C28_Witness ==
    /\ pc = "planned"
    /\ Len(plan.Upload) = 1
    /\ Len(plan.Delete) = 1
    /\ plan.Download = <<>>
    /\ options.Direction = SyncToRemote
    /\ options.Incremental

(***************************************************************************)
(* The local sync command: runSync, calculateDifferences, transferFiles    *)
(***************************************************************************)
\* a path is the sequence of its components
LocalDirs == {"s", "d"}
Rels == {"a.txt", "b.txt"}
RelOrder == <<"a.txt", "b.txt">>
Hashes == {"H1", "H2"}

\* filepath.Join of a directory and a relative path
Join(dir, rel) == dir \o rel

\* filepath.Rel: the path below base, or a way up out of base
Rel(base, path) ==
    IF Len(path) >= Len(base) /\ SubSeq(path, 1, Len(base)) = base
    THEN SubSeq(path, Len(base) + 1, Len(path))
    ELSE <<"..">> \o path

\* the files of a directory: relative name -> hash
Trees == UNION {[S -> Hashes] : S \in SUBSET Rels}

FileMetadata(dir, name, hash) ==
    [Path |-> Join(dir, <<name>>), Hash |-> hash]

\* the records the scanner returns for a directory, in the order of the names
Scanned(dir, tree) ==
    LET names == SelectSeq(RelOrder, LAMBDA n : n \in DOMAIN tree)
    IN  [i \in 1..Len(names) |-> FileMetadata(dir, names[i], tree[names[i]])]

LocalSyncOptions ==
    [SourcePath : {<<"s">>}, DestPath : {<<"d">>, <<"s">>},
     RuleFile : {"", "rules.lua"}]

\* the record of files[] with the given path, as destMap[path] finds it
Lookup(files, path) ==
    LET hits == {i \in 1..Len(files) : files[i].Path = path}
    IN  IF hits = {} THEN [exists |-> FALSE, Hash |-> ""]
        ELSE [exists |-> TRUE,
              Hash |-> files[CHOOSE i \in hits : \A j \in hits : j <= i].Hash]

\* calculateDifferences, lines 241-243: the records destMap is filled from
DestMapSource(sourceFiles, destFiles) == sourceFiles

\* calculateDifferences
calculateDifferences(sourceFiles, destFiles, opts) ==
    LET destMap == DestMapSource(sourceFiles, destFiles)
        differs(srcFile) ==
            LET relPath == Rel(opts.SourcePath, srcFile.Path)
                destFile == Lookup(destMap, Join(opts.DestPath, relPath))
            IN  ~destFile.exists \/ srcFile.Hash # destFile.Hash
    IN  SelectSeq(sourceFiles, differs)

\* runSync returns before the transfer
RunSyncReturns(err) ==
    /\ runPc' = "exit"
    /\ runErr' = err
    /\ UNCHANGED <<scanResult, diffFiles, copied>>

\* runSync up to the transfer.  valid, scanOK, filterOK: outcomes of
\* validataSyncOptions, the scanner and the rule filter; src, dst: the files
\* of the two directories; keep: the names the rule filter lets through
RunSyncPlan(valid, scanOK, filterOK, src, dst, keep) ==
    /\ runPc = "start"
    /\ IF ~valid THEN RunSyncReturns("err:validate")
       ELSE IF ~scanOK THEN RunSyncReturns("err:scan")
       ELSE IF syncOptions.RuleFile # "" /\ ~filterOK
       THEN RunSyncReturns("err:filter")
       ELSE /\ scanResult' =
                 [SourceFiles |-> Scanned(syncOptions.SourcePath, src),
                  DestFiles   |-> Scanned(syncOptions.DestPath, dst)]
            /\ LET kept(f) == f.Path[Len(f.Path)] \in keep
                   filesToSync ==
                       IF syncOptions.RuleFile = ""
                       THEN scanResult'.SourceFiles
                       ELSE SelectSeq(scanResult'.SourceFiles, kept)
               IN  diffFiles' = calculateDifferences(filesToSync,
                                                     scanResult'.DestFiles,
                                                     syncOptions)
            /\ runPc' = IF diffFiles' = <<>> THEN "exit" ELSE "transfer"
            /\ runErr' = IF diffFiles' = <<>> THEN "nil:uptodate" ELSE "none"
            /\ UNCHANGED copied
    /\ UNCHANGED <<syncOptions, connVars, syncVars, storeVars, scanVars,
                   remoteDirExists, lastStat, waitVars>>

\* one iteration of the loop of transferFiles (the source is a directory);
\* mkdirOK, copyOK: outcomes of os.MkdirAll and copyFile
TransferStep(mkdirOK, copyOK) ==
    /\ runPc = "transfer"
    /\ LET file == diffFiles[Len(copied) + 1]
           destPath == Join(syncOptions.DestPath,
                            Rel(syncOptions.SourcePath, file.Path))
       IN  IF ~mkdirOK
           THEN /\ runPc' = "exit"
                /\ runErr' = "err:transfer"
                /\ UNCHANGED copied
           ELSE /\ copied' = Append(copied, [src |-> file.Path,
                                             dst |-> destPath, ok |-> copyOK])
                /\ runPc' = IF copyOK /\ Len(copied') < Len(diffFiles)
                            THEN "transfer" ELSE "exit"
                /\ runErr' = IF ~copyOK THEN "err:transfer"
                             ELSE IF runPc' = "exit" THEN "nil" ELSE "none"
    /\ UNCHANGED <<syncOptions, scanResult, diffFiles, connVars, syncVars,
                   storeVars, scanVars,
                   remoteDirExists, lastStat, waitVars>>

\* SpecLocal: the local sync command over every pair of directories
InitLocal ==
    /\ InitProfile
    /\ NoManager
    /\ NoScanInput
    /\ RemoteDirPresent
    /\ NoStatCall
    /\ NoWait
    /\ syncOptions \in LocalSyncOptions
    /\ scanResult = [SourceFiles |-> <<>>, DestFiles |-> <<>>]
    /\ diffFiles = <<>>
    /\ copied = <<>>
    /\ runPc = "start"
    /\ runErr = "none"

PlanLocal ==
    /\ runPc = "start"
    /\ \E valid \in BOOLEAN, scanOK \in BOOLEAN, filterOK \in BOOLEAN,
          src \in Trees, dst \in Trees, keep \in SUBSET Rels :
          /\ syncOptions.DestPath = syncOptions.SourcePath => dst = src
          /\ RunSyncPlan(valid, scanOK, filterOK, src, dst, keep)

Transfer ==
    \E mkdirOK \in BOOLEAN, copyOK \in BOOLEAN : TransferStep(mkdirOK, copyOK)

NextLocal == PlanLocal \/ Transfer

SpecLocal == InitLocal /\ [][NextLocal]_vars

\* runSync got past the scan and the filter
Compared == runPc # "start" /\ runErr \notin {"err:validate", "err:scan",
                                               "err:filter"}

\* the destination's record at the relative path of a source record
Counterpart(f) ==
    Lookup(scanResult.DestFiles,
           Join(syncOptions.DestPath, Rel(syncOptions.SourcePath, f.Path)))

\* C24: the local sync command transfers a source file only if the
\* destination has no file at the same relative path or that file's hash
\* differs; when every source file has a counterpart of the same hash the
\* difference list is empty, the run returns as up to date and nothing is
\* copied.  (SpecLocal)
C24_OnlyChangedFilesTransferred ==
    Compared =>
        /\ \A i \in 1..Len(diffFiles) :
              \/ ~Counterpart(diffFiles[i]).exists
              \/ Counterpart(diffFiles[i]).Hash # diffFiles[i].Hash
        /\ (\A i \in 1..Len(scanResult.SourceFiles) :
               /\ Counterpart(scanResult.SourceFiles[i]).exists
               /\ Counterpart(scanResult.SourceFiles[i]).Hash
                     = scanResult.SourceFiles[i].Hash)
           => (diffFiles = <<>> /\ runErr = "nil:uptodate" /\ copied = <<>>)

(***************************************************************************)
(* The scans of SyncDirectory: shouldExclude, scanLocalFiles and the       *)
(* parsing half of scanRemoteFiles.  A string is the sequence of its       *)
(* characters.                                                             *)
(***************************************************************************)
\* the relative path each key of an inventory stands for: "a/b", "b.t", "t"
PathTexts == <<  <<"a", "/", "b">>,  <<"b", ".", "t">>,  <<"t">>  >>
PathText(p) == PathTexts[((p - 1) % Len(PathTexts)) + 1]

\* exclude patterns: "a", "b", "*.t", "?", and "[" (a class never closed)
Patterns == { <<"a">>, <<"b">>, <<"*", ".", "t">>, <<"?">>, <<"[">> }
ExcludeLists ==
    {<<>>} \cup {<<x>> : x \in Patterns}
           \cup {<<x, y>> : x \in Patterns, y \in Patterns}

\* filepath.Base of a relative path without a trailing separator
RECURSIVE Base(_)
Base(path) ==
    IF path = <<>> THEN <<".">>
    ELSE IF \E i \in 1..Len(path) : path[i] = "/"
         THEN Base(Tail(path))
         ELSE path

\* filepath.Match, the matched result (FALSE when it returns ErrBadPattern):
\* "*" takes any run of characters other than the separator, "?" one of them
RECURSIVE Match(_, _)
Match(pattern, name) ==
    IF pattern = <<>> THEN name = <<>>
    ELSE IF Head(pattern) = "*"
    THEN \E k \in 0..Len(name) :
            /\ \A i \in 1..k : name[i] # "/"
            /\ Match(Tail(pattern), SubSeq(name, k + 1, Len(name)))
    ELSE IF Head(pattern) = "["
    THEN FALSE
    ELSE /\ name # <<>>
         /\ IF Head(pattern) = "?" THEN Head(name) # "/"
            ELSE Head(name) = Head(pattern)
         /\ Match(Tail(pattern), Tail(name))

\* strings.Contains
Contains(str, substr) ==
    \E i \in 1..(Len(str) - Len(substr) + 1) :
        SubSeq(str, i, i + Len(substr) - 1) = substr

\* mutation: the substring test dropped
ExcludedBy_GlobOnly(pattern, path) == Match(pattern, Base(path))

\* shouldExclude, lines 251-256: the two tests made for one pattern
ExcludedBy(pattern, path) ==
    IF Match(pattern, Base(path)) THEN TRUE
    ELSE Contains(path, pattern)

\* shouldExclude
RECURSIVE shouldExclude(_, _)
shouldExclude(path, list) ==
    IF list = <<>> THEN FALSE
    ELSE IF ExcludedBy(Head(list), path) THEN TRUE
    ELSE shouldExclude(path, Tail(list))

\* a ModifiedTime text: in the layout time.Parse is given or in another one,
\* and the instant it denotes
TimeTexts == [layout : {"2006-01-02T15:04:05Z", "other"}, at : Times]
NowTimes == {2, 3}

\* mutation: a text that does not parse leaves the zero time
ParseOrNow_ZeroTime(text, t) ==
    IF text.layout = "2006-01-02T15:04:05Z" THEN text.at ELSE 0

\* scanLocalFiles, lines 181-184: time.Parse, and time.Now() when it fails
ParseOrNow(text, t) ==
    IF text.layout = "2006-01-02T15:04:05Z" THEN text.at ELSE t

\* scanner records: path -> [Size, ModifiedTime]
PyRecords == [Size : {1}, ModifiedTime : TimeTexts]
PyFileSets == UNION {[S -> PyRecords] : S \in SUBSET Paths}

\* scanLocalFiles: the inventory made of the scanner's records
scanLocalFiles(records, list, t) ==
    [p \in {q \in DOMAIN records : ~shouldExclude(PathText(q), list)} |->
        [Size |-> records[p].Size,
         ModTime |-> ParseOrNow(records[p].ModifiedTime, t)]]

\* mutation: the listing's lines are taken without the exclusion test
listedFiles_Unfiltered(lines, list) == lines

\* scanRemoteFiles, lines 213-243: the inventory made of the listing's lines
listedFiles(lines, list) ==
    [p \in {q \in DOMAIN lines : ~shouldExclude(PathText(q), list)} |->
        lines[p]]

\* SpecInventory: SyncDirectory on a connected engine, the two scans given
\* their raw input: either every exclude list over files with well-formed
\* times, or every ModifiedTime text with no exclude list
ConnectedEngine ==
    /\ config = NewSSHClient([Host |-> <<"h", ":">>, Port |-> 0,
                              Password |-> "pw", KeyFile |-> "",
                              StrictHostCheck |-> FALSE])
    /\ env = [KeyState |-> "plain", Agent |-> FALSE,
              UnknownText |-> "knownhosts: key is unknown"]
    /\ knownHosts = [exists |-> FALSE, lines |-> <<>>]
    /\ connected = TRUE
    /\ sshClient = 1
    /\ sftpClient = 1
    /\ openConns = {1}
    /\ nextConn = 2
    /\ connectErr = "nil"
    /\ acceptedKey = "k1"
    /\ presentedKey = "k1"
    /\ hostStatus = "none"
    /\ nConnects = 1
    /\ lastOp = OpRecord("Connect", FALSE, FALSE, TRUE, FALSE)
    /\ rseClient = TRUE
    /\ plan = EmptyPlan
    /\ result = EmptyResult
    /\ pc = "idle"
    /\ idx = 1
    /\ calls = <<>>
    /\ retval = "none"
    /\ cmd = "sync"
    /\ cmdErr = "none"
    /\ NoManager
    /\ NoLocalSync
    /\ NoStatCall
    /\ NoWait

\* the scans are fed their raw input: localFiles and remoteFiles are not used
ConnectedIdle ==
    /\ ConnectedEngine
    /\ localFiles = EmptyInventory
    /\ remoteFiles = EmptyInventory

InitInventory ==
    /\ ConnectedIdle
    /\ RemoteDirPresent
    /\ options \in {o \in SyncOptions : ~o.DryRun /\ ~o.Force}
    /\ \/ /\ excludeList \in ExcludeLists \ {<<>>}
          /\ pyFiles \in {f \in PyFileSets : \A p \in DOMAIN f :
                             f[p].ModifiedTime =
                                 [layout |-> "2006-01-02T15:04:05Z", at |-> 1]}
          /\ findOutput \in {f \in Inventories : \A p \in DOMAIN f :
                                f[p] = [Size |-> 1, ModTime |-> 1]}
          /\ now = 3
          /\ ~options.Incremental
       \/ /\ excludeList = <<>>
          /\ ~options.DeleteExtra
          /\ pyFiles \in PyFileSets
          /\ findOutput \in Inventories
          /\ now \in NowTimes

ScanFilesAndPlan ==
    /\ pc = "idle"
    /\ \E mkdirOK \in BOOLEAN, scanOK \in BOOLEAN, findOK \in BOOLEAN :
          SyncDirectory(mkdirOK, scanOK, findOK,
                        scanLocalFiles(pyFiles, excludeList, now),
                        listedFiles(findOutput, excludeList))

NextInventory == ScanFilesAndPlan

SpecInventory == InitInventory /\ [][NextInventory]_vars

\* the two inventories the scans make of their input
LocalInventory == scanLocalFiles(pyFiles, excludeList, now)
RemoteInventory == listedFiles(findOutput, excludeList)

\* SyncDirectory got as far as the plan
Planned == pc \in {"upload", "download", "delete", "done"} /\ calls # <<>>

\* some pattern of the list glob-matches the base name of the path or occurs
\* in the path
SomePatternApplies(path, list) ==
    \E i \in 1..Len(list) :
        \/ Match(list[i], Base(path))
        \/ Contains(path, list[i])

\* C29: shouldExclude(path) is true exactly when some pattern of the exclude
\* list glob-matches the base name of path or occurs as a substring anywhere
\* in path; a path for which it is true appears in neither the local nor the
\* remote inventory, and so in no collection of the plan.  (SpecInventory)
C29_ExcludedPathsAreDropped ==
    \A p \in Paths :
        /\ shouldExclude(PathText(p), excludeList)
              <=> SomePatternApplies(PathText(p), excludeList)
        /\ shouldExclude(PathText(p), excludeList) =>
              /\ p \notin DOMAIN LocalInventory
              /\ p \notin DOMAIN RemoteInventory
              /\ Planned => p \notin Uploads \cup Downloads \cup Deletes
        /\ ~shouldExclude(PathText(p), excludeList) =>
              /\ p \in DOMAIN LocalInventory <=> p \in DOMAIN pyFiles
              /\ p \in DOMAIN RemoteInventory <=> p \in DOMAIN findOutput

\* the list <<"[", "a">> with "a/b" on the local side and "b.t" on both: "a"
\* occurs in the directory part of "a/b", which is the one path left out of
\* the plan
C29_Witness ==
    /\ Planned
    /\ excludeList = << <<"[">>, <<"a">> >>
    /\ DOMAIN pyFiles = {1, 2}
    /\ DOMAIN findOutput = {2}
    /\ options.Direction = SyncBoth
    /\ DOMAIN LocalInventory = {2}
    /\ Uploads = {}
    /\ ~FindFailed

\* the scanner's records whose ModifiedTime does not parse
Unparsed == {p \in DOMAIN pyFiles : pyFiles[p].ModifiedTime.layout = "other"}

\* the local scan of the run succeeded
LocalScanDone == \E i \in 1..Len(calls) : calls[i].op = "walk" /\ calls[i].ok

\* C30: a scanner record whose timestamp cannot be parsed does not fail the
\* scan: the record is kept in the local inventory with the current time as
\* its modification time, so in incremental mode with direction toRemote or
\* bidirectional it is queued for upload whenever the remote copy's time is
\* earlier than the time of the scan.  (SpecInventory)
C30_UnparsedTimeIsNow ==
    /\ \A p \in Unparsed :
          ~shouldExclude(PathText(p), excludeList) =>
              /\ p \in DOMAIN LocalInventory
              /\ LocalInventory[p].ModTime = now
              /\ LocalInventory[p].Size = pyFiles[p].Size
    /\ LocalScanDone =>
          /\ retval \in {"none", "nil"}
          /\ Planned
          /\ (options.Incremental /\ ToRemoteSide) =>
                \A p \in Unparsed :
                    (p \in DOMAIN findOutput
                       /\ findOutput[p].ModTime < now) => p \in Uploads

\* a record whose text denotes an instant before the remote copy's time, of
\* the same size, is queued for upload because the text does not parse
C30_Witness ==
    /\ Planned
    /\ ~FindFailed
    /\ options.Incremental
    /\ options.Direction = SyncToRemote
    /\ now = 3
    /\ \E p \in Unparsed :
          /\ pyFiles[p].ModifiedTime.at = 1
          /\ p \in DOMAIN findOutput
          /\ findOutput[p] = [Size |-> 1, ModTime |-> 2]
          /\ p \in Uploads

\* the items of the plan in the order executeSyncPlan takes them
PlanItems == plan.Upload \o plan.Download \o plan.Delete

\* the bytes of the first n attempts that were transfers and succeeded
RECURSIVE TransferredBytes(_)
TransferredBytes(n) ==
    IF n = 0 THEN 0
    ELSE TransferredBytes(n - 1)
           + (IF ExecLog[n].ok /\ ExecLog[n].op \in {"UploadFile", "DownloadFile"}
              THEN PlanItems[n].Size ELSE 0)

\* C31: during and after execution TotalSize is the sum of the Size fields of
\* exactly the upload and download items whose transfer succeeded; failed
\* items and remote deletions add nothing to it.  (Spec)
C31_TotalSizeCountsTransfers ==
    (cmd = "sync" /\ ~options.DryRun) =>
        result.TotalSize = TransferredBytes(Len(ExecLog))

\* an executed plan of three items: an upload of size 2 that succeeded, a
\* download that failed and a deletion that succeeded
C31_Witness ==
    /\ PlanExecuted
    /\ Len(ExecLog) = 3
    /\ ExecLog[1].op = "UploadFile" /\ ExecLog[1].ok
    /\ ExecLog[2].op = "DownloadFile" /\ ~ExecLog[2].ok
    /\ ExecLog[3].op = "rm" /\ ExecLog[3].ok
    /\ plan.Upload[1].Size = 2
    /\ result.TotalSize = 2

\* C39: FIleExists on a connected client returns (true, nil) only when the
\* remote stat of the path succeeded, and (false, nil) when the path does not
\* exist; it never reports a path as existing when the stat failed.
\* (SpecCalls)
C39_ExistsOnlyWhenStatSucceeded ==
    (lastOp.op = "FIleExists" /\ lastOp.conn) =>
        /\ (lastStat.exists /\ ~lastStat.err) => lastStat.stat = "ok"
        /\ lastStat.stat = "notexist" => (~lastStat.exists /\ ~lastStat.err)
        /\ lastStat.stat = "error" => ~lastStat.exists

\* SpecDryRun: SyncDirectory on a connected engine with every setting of the
\* options, the target directory there or not; a directory that is not there
\* holds no files
PresenceOnly == {f \in Inventories :
                    \A p \in DOMAIN f : f[p] = [Size |-> 1, ModTime |-> 1]}

InitDryRun ==
    /\ ConnectedEngine
    /\ NoScanInput
    /\ options \in SyncOptions
    /\ localFiles \in PresenceOnly
    /\ remoteFiles \in PresenceOnly
    /\ remoteDirExists \in BOOLEAN
    /\ ~remoteDirExists => remoteFiles = EmptyInventory

NextDryRun == ScanAndPlan

SpecDryRun == InitDryRun /\ [][NextDryRun]_vars

\* C33: with DryRun set, SyncDirectory issues no remote command that changes
\* the remote side: the remote directory tree is the same before and after
\* the call, also when the target directory does not exist yet.  (SpecDryRun)
C33_DryRunLeavesRemoteAlone ==
    [][options.DryRun =>
          /\ remoteDirExists' = remoteDirExists
          /\ remoteFiles' = remoteFiles]_vars

\* SpecEngine: one RemoteSyncEngine used through its three methods in any
\* order: Connect and Disconnect any number of times, SyncDirectory once.
\* pc: "idle" (SyncDirectory not called yet), "done" (it returned), "panic"
\* (it crashed)
InitEngine ==
    /\ config = [Host |-> <<"h", ":">>, Port |-> 0, Password |-> "pw",
                 KeyFile |-> "", StrictHostCheck |-> FALSE]
    /\ env = [KeyState |-> "plain", Agent |-> FALSE,
              UnknownText |-> "knownhosts: key is unknown"]
    /\ knownHosts = [exists |-> FALSE, lines |-> <<>>]
    /\ InitClient
    /\ rseClient = FALSE
    /\ localFiles \in PresenceOnly
    /\ remoteFiles \in PresenceOnly
    /\ plan = EmptyPlan
    /\ result = EmptyResult
    /\ pc = "idle"
    /\ idx = 1
    /\ calls = <<>>
    /\ retval = "none"
    /\ cmd = "sync"
    /\ cmdErr = "none"
    /\ options = [DefaultOptions EXCEPT !.DryRun = TRUE]
    /\ NoManager
    /\ NoLocalSync
    /\ NoScanInput
    /\ RemoteDirPresent
    /\ NoStatCall
    /\ NoWait

ConnectEngine ==
    /\ pc # "panic"
    /\ nConnects < MaxConnects
    /\ \E netOK \in BOOLEAN, accepts \in {{}, {"password"}},
          sftpOK \in BOOLEAN :
            EngineConnect(netOK, "k1", accepts, sftpOK, TRUE)
    /\ UNCHANGED <<pc, cmdErr>>

DisconnectEngine ==
    /\ pc # "panic"
    /\ \E sftpOK \in BOOLEAN, sshOK \in BOOLEAN : Disconnect(sftpOK, sshOK)
    /\ UNCHANGED <<pc, cmdErr>>

NextEngine == ConnectEngine \/ DisconnectEngine \/ ScanAndPlan

SpecEngine == InitEngine /\ [][NextEngine]_vars

\* C34: SyncDirectory on an engine that is not connected (Connect never
\* called, Connect failed, or Disconnect already done) returns the
\* not-connected error, makes no call of a scan, a transfer or a delete, and
\* does not crash.  (SpecEngine)
C34_NotConnectedSyncReturnsError ==
    [][(pc = "idle" /\ pc' # "idle" /\ ~connected) =>
          /\ pc' = "done"
          /\ retval' = "err:notconnected"
          /\ calls' = calls]_vars

\* C35: over any sequence of Connect and Disconnect on one engine at most
\* one session is open, and after a Disconnect none is.  (SpecEngine)
C35_AtMostOneSession ==
    /\ Cardinality(openConns) <= 1
    /\ lastOp.op = "Close" => openConns = {}

\* C36: a file of the remote listing whose path the exclude list matches is
\* never queued for download or for deletion, also with DeleteExtra set and
\* no local file of that path; a file of the local scan whose path the list
\* matches is never queued for upload.  (SpecInventory)
C36_ExcludedFilesAreNeverPlanned ==
    Planned =>
        /\ \A p \in DOMAIN findOutput :
              shouldExclude(PathText(p), excludeList) =>
                  p \notin Downloads \cup Deletes
        /\ \A p \in DOMAIN pyFiles :
              shouldExclude(PathText(p), excludeList) => p \notin Uploads

\* DeleteExtra towards the remote side, two files on the remote side only:
\* the one the list matches is left alone, the other is queued for deletion
C36_Witness ==
    /\ Planned
    /\ ~FindFailed
    /\ options.DeleteExtra
    /\ options.Direction = SyncToRemote
    /\ pyFiles = <<>>
    /\ \E p \in DOMAIN findOutput, q \in DOMAIN findOutput :
          /\ shouldExclude(PathText(p), excludeList)
          /\ ~shouldExclude(PathText(q), excludeList)
          /\ Deletes = {q}

\* C37: after any sequence of AddConfig, UpdateConfig and RemoveConfig every
\* stored profile passes the checks of AddConfig: its name is its key and is
\* not empty, it has an SSH target, and host and username are not empty.
\* (SpecStore)
C37_StoredProfilesPassAddChecks ==
    \A n \in DOMAIN configs :
        /\ configs[n].Name = n
        /\ AddConfigError(configs[n]) = ""

\* SpecRerun: two runs of SyncDirectory in incremental mode, one after the
\* other, every item succeeding, the two directories changed by nothing but
\* the runs.  localFiles and remoteFiles are the two directories; now is the
\* clock, no file is newer than it.  pc: "idle", "done" (one run made),
\* "again" (two runs made)

\* UploadFile, lines 255-283: the remote copy has the size of the local file
\* and the time of the transfer t
Uploaded(lf, rf, ps, t) ==
    [p \in DOMAIN rf \cup ps |->
        IF p \in ps THEN [Size |-> lf[p].Size, ModTime |-> t] ELSE rf[p]]

\* DownloadFile, lines 286-314: the local copy has the size of the remote
\* file and the time of the transfer t
Downloaded(lf, rf, ps, t) ==
    [p \in DOMAIN lf \cup ps |->
        IF p \in ps THEN [Size |-> rf[p].Size, ModTime |-> t] ELSE lf[p]]

\* the remote directory without the files removed by "rm -f"
Removed(rf, ps) == [p \in DOMAIN rf \ ps |-> rf[p]]

\* executeSyncPlan with every item succeeding: the uploads at time tu, then
\* the downloads at time td, then the deletions
executeSyncPlan(lf, rf, pl, tu, td) ==
    LET r1 == Uploaded(lf, rf, PathsOf(pl.Upload), tu)
        l1 == Downloaded(lf, r1, PathsOf(pl.Download), td)
    IN  [localFiles |-> l1,
         remoteFiles |-> Removed(r1, PathsOf(pl.Delete))]

MaxTime == CHOOSE t \in Times : \A u \in Times : u <= t

InitRerun ==
    /\ ConnectedEngine
    /\ RemoteDirPresent
    /\ excludeList = <<>>
    /\ pyFiles = <<>>
    /\ findOutput = <<>>
    /\ now = MaxTime
    /\ localFiles \in Inventories
    /\ remoteFiles \in Inventories
    /\ options \in {o \in SyncOptions :
                       o.Incremental /\ ~o.DryRun /\ ~o.Force}

\* SyncDirectory from the scans to the end of executeSyncPlan
SyncRun ==
    /\ pc \in {"idle", "done"}
    /\ plan' = calculateSyncPlan(localFiles, remoteFiles, options)
    /\ \E tu \in {now, now + 1} : \E td \in {tu, tu + 1} :
        \E o \in {executeSyncPlan(localFiles, remoteFiles, plan', tu, td)} :
          /\ localFiles' = o.localFiles
          /\ remoteFiles' = o.remoteFiles
          /\ now' = td
    /\ pc' = IF pc = "idle" THEN "done" ELSE "again"
    /\ retval' = "nil"
    /\ UNCHANGED <<connVars, rseClient, options, result, idx, calls, cmd,
                   cmdErr, storeVars, localVars, excludeList, pyFiles,
                   findOutput, remoteDirExists, lastStat, waitVars>>

NextRerun == SyncRun

SpecRerun == InitRerun /\ [][NextRerun]_vars

\* C32: incremental sync is idempotent: after a run in which every item
\* succeeded, with no file changed on either side since, the plan of the
\* next run with the same options is empty, for each of the directions
\* toRemote, fromRemote and bidirectional.  (SpecRerun)
C32_SecondPlanIsEmpty == pc = "again" => plan = EmptyPlan

\* the same for the two one-way directions only
OneWayRerunIsEmpty ==
    (pc = "again" /\ options.Direction # SyncBoth) => plan = EmptyPlan

(***************************************************************************)
(* PythonManager.ScanDirectoriesWithTimeout and                            *)
(* LuaManager.FilterFilesWithTimeout (bindings)                            *)
(***************************************************************************)
\* worker: 0 (no goroutine), or the index of the statement of WorkerProgram
\* the goroutine executes next (past the last one: it has ended).
\* caller: "none", "go" (done is made, the go statement is next), "select"
\* (at the select statement), "gotDone" / "gotTimer" (inside the case it
\* took), "returned".
\* done: "open" or "closed".  timer: "running", "fired" (the timeout elapsed
\* while done was open) or "firedAfter" (it elapsed after done was closed);
\* the timer's channel is looked at by the select statement only.
WaitOps == {"ScanDirectories", "FilterFiles"}

\* what the wrapped call can return: a result and no error, or no result
\* and an error (the command failed, or its output does not parse)
CallOutcomes(op) ==
    {[result |-> op, err |-> "nil"], [result |-> "nil", err |-> "exec"],
     [result |-> "nil", err |-> "parse"]}

\* `return nil, fmt.Errorf(...)` of the timeout case
TimeoutOutcome == [result |-> "nil", err |-> "timeout"]

\* mutation: done is closed before the call is made and its values stored
WorkerProgram_CloseFirst == <<"close", "result", "err">>

\* the goroutine: `defer close(done); result, err = call(...)`: the call's
\* two values are stored one after the other, then done is closed
WorkerProgram == <<"result", "err", "close">>

\* the waiting goroutines and the timer leave the rest of the program alone
OthersIdle ==
    UNCHANGED <<connVars, syncVars, storeVars, localVars, scanVars,
                remoteDirExists, lastStat>>

WorkerEnded == worker > Len(WorkerProgram)

\* the method is entered: done is made, result and err are declared
StartWait ==
    /\ waitOp = "none"
    /\ waitOp' \in WaitOps
    /\ caller' = "go"
    /\ UNCHANGED <<worker, shared, done, timer, returned>>
    /\ OthersIdle

\* the go statement: the goroutine exists, the caller goes on to select
Go ==
    /\ caller = "go"
    /\ worker' = 1
    /\ caller' = "select"
    /\ UNCHANGED <<waitOp, shared, done, timer, returned>>
    /\ OthersIdle

\* one statement of the goroutine
WorkerStep ==
    /\ worker \in 1..Len(WorkerProgram)
    /\ IF WorkerProgram[worker] = "result"
       THEN /\ \E o \in CallOutcomes(waitOp) :
                  shared' = [shared EXCEPT !.result = o.result]
            /\ done' = done
       ELSE IF WorkerProgram[worker] = "err"
       THEN /\ \E o \in CallOutcomes(waitOp) :
                  /\ o.result = shared.result
                  /\ shared' = [shared EXCEPT !.err = o.err]
            /\ done' = done
       ELSE /\ done' = "closed"
            /\ shared' = shared
    /\ worker' = worker + 1
    /\ UNCHANGED <<waitOp, caller, timer, returned>>
    /\ OthersIdle

\* the timeout elapses while the caller waits
TimerFires ==
    /\ caller = "select"
    /\ timer = "running"
    /\ timer' = IF done = "closed" THEN "firedAfter" ELSE "fired"
    /\ UNCHANGED <<waitOp, worker, caller, shared, done, returned>>
    /\ OthersIdle

\* select: a case whose channel is ready is taken, any of them when both are
Select ==
    /\ caller = "select"
    /\ \/ done = "closed" /\ caller' = "gotDone"
       \/ timer # "running" /\ caller' = "gotTimer"
    /\ UNCHANGED <<waitOp, worker, shared, done, timer, returned>>
    /\ OthersIdle

\* the return statement of the case taken; `return result, err` reads the
\* captured variables
Return ==
    /\ caller \in {"gotDone", "gotTimer"}
    /\ returned' = IF caller = "gotDone" THEN shared ELSE TimeoutOutcome
    /\ caller' = "returned"
    /\ UNCHANGED <<waitOp, worker, shared, done, timer>>
    /\ OthersIdle

InitWait ==
    /\ config = [Host |-> <<"h", ":">>, Port |-> 0, Password |-> "pw",
                 KeyFile |-> "", StrictHostCheck |-> FALSE]
    /\ env = [KeyState |-> "plain", Agent |-> FALSE,
              UnknownText |-> "knownhosts: key is unknown"]
    /\ knownHosts = [exists |-> FALSE, lines |-> <<>>]
    /\ InitClient
    /\ InitSyncVars
    /\ cmd = "sync"
    /\ options = DefaultOptions
    /\ NoManager
    /\ NoLocalSync
    /\ NoScanInput
    /\ RemoteDirPresent
    /\ NoStatCall
    /\ NoWait

NextWait == StartWait \/ Go \/ WorkerStep \/ TimerFires \/ Select \/ Return

SpecWait == InitWait /\ [][NextWait]_vars

\* the worker closed done before the timeout elapsed
WorkerFirst == done = "closed" /\ timer # "fired"

\* C38 as claimed: the method returns the worker's (result, error) when the
\* worker finishes before the timeout and (nil, timeout error) otherwise.
\* (SpecWait)
C38_WorkerFirstDecides ==
    caller = "returned" =>
        returned = (IF WorkerFirst THEN shared ELSE TimeoutOutcome)

\* C38: the method returns exactly one outcome.  It is the worker's (result,
\* error) only if done was closed, and it is that whenever the timeout had
\* not elapsed when the caller left the select statement; it is (nil,
\* timeout error) only if the timeout had elapsed, and it is that whenever
\* done was still open then; when both had happened either of the two is
\* returned.  The caller reads result and err only after the worker has
\* ended.  A worker that outlives the timeout goes on, and what it writes
\* afterwards does not change what was returned.  (SpecWait)
C38_OneOutcomeNoRace ==
    /\ caller = "gotDone" => WorkerEnded
    /\ caller = "gotTimer" => timer # "running"
    /\ caller = "returned" =>
          /\ \/ returned = shared /\ WorkerEnded
             \/ returned = TimeoutOutcome /\ timer # "running"
          /\ timer = "running" => returned = shared
          /\ ~WorkerEnded =>
                /\ returned = TimeoutOutcome
                /\ ENABLED WorkerStep
    /\ caller \in {"none", "go", "select", "gotDone", "gotTimer"} =>
          returned = [result |-> "none", err |-> "none"]

\* the worker ended before the timeout elapsed, both channels were ready at
\* the select statement, and the timeout error was returned
C38_Witness ==
    /\ caller = "returned"
    /\ WorkerEnded
    /\ timer = "firedAfter"
    /\ shared.err = "nil"
    /\ returned = TimeoutOutcome

====
